---- MODULE Spec2Model ----
(***************************************************************************)
(* Infinity-Chess-Bot: the position (src/src/board.rs) and the pseudo-legal *)
(* move generator (src/src/move/movegen.rs) on the unbounded board.         *)
(*                                                                         *)
(* A Coordinate is a pair <<x, y>> of integers (BigInt in the source, so    *)
(* there is no width and no overflow).  A Piece is one of twelve strings    *)
(* that keep the source's variant names.  A Board value is a record with    *)
(* the five fields of struct Board; the history field holds the clones      *)
(* make pushed, oldest first.                                               *)
(***************************************************************************)
EXTENDS Integers, Sequences, FiniteSets, TLC

VARIABLES
    state,            \* Board.state: HashMap<Coordinate, Piece>
    castling_rights,  \* Board.castling_rights: u8
    en_passant,       \* Board.en_passant: Option<Coordinate>
    side_to_move,     \* Board.side_to_move: true for white
    history,          \* Board.history: Vec<Board>
    status,           \* "running", or the panic that aborted the process
    created,          \* "new": built by Board::new() and generated moves; "empty": by Board::empty() and set_piece
    trail,            \* the makes not yet unmade since the initial state: move, whether generated, result
    last,             \* the last operation: its name, arguments, result and the board before it
    searcher,         \* the Searcher: ply, nodes, killers, pv_table, pv_length, follow_pv, score_pv
    STOP,             \* static mut STOP
    sp,               \* search_position: where it stands and its locals depth, current_depth, score, best_move
    calls,            \* the calls of negamax and quiescence in progress, the innermost last: their locals
    value             \* the call that returned last, its arguments and the value it returned

searchVars == <<searcher, STOP, sp, calls, value>>

vars == <<state, castling_rights, en_passant, side_to_move, history,
          status, created, trail, last, searchVars>>

-----------------------------------------------------------------------------
(* Bounds of the model *)

\* makes the driver nests on top of an initial position
MaxDepth == 1

\* is_attacked is called on boards at most this many makes above an initial position
MaxQueryDepth == 0

-----------------------------------------------------------------------------
(* Pieces and coordinates: board.rs 10-50 *)

WhitePieces == {"WhitePawn", "WhiteRook", "WhiteKnight", "WhiteBishop", "WhiteQueen", "WhiteKing"}
BlackPieces == {"BlackPawn", "BlackRook", "BlackKnight", "BlackBishop", "BlackQueen", "BlackKing"}
Piece == WhitePieces \cup BlackPieces

is_white(p) == p \in WhitePieces
is_black(p) == p \in BlackPieces

Coordinate(x, y) == <<x, y>>

\* Option::None for en_passant and for get_piece
NoCoord == <<>>
NoPiece == "None"

Abs(n) == IF n < 0 THEN -n ELSE n

-----------------------------------------------------------------------------
(* u8 bit operations on castling_rights *)

Bit(v, k) == (v \div (2 ^ k)) % 2

\* v & m != 0
HasBits(v, m) == \E k \in 0..7 : Bit(v, k) = 1 /\ Bit(m, k) = 1

RECURSIVE AndNotFrom(_, _, _)
AndNotFrom(v, m, k) ==
    IF k > 7 THEN 0
    ELSE (IF Bit(v, k) = 1 /\ Bit(m, k) = 0 THEN 2 ^ k ELSE 0) + AndNotFrom(v, m, k + 1)

\* v &= !m
AndNot(v, m) == AndNotFrom(v, m, 0)

-----------------------------------------------------------------------------
(* Board construction and accessors: board.rs 61-120 *)

EmptyState == [c \in {} |-> "WhitePawn"]

MkBoard(s, cr, ep, stm, h) ==
    [state |-> s, castling_rights |-> cr, en_passant |-> ep, side_to_move |-> stm, history |-> h]

get_piece(b, c) == IF c \in DOMAIN b.state THEN b.state[c] ELSE NoPiece

\* HashMap::insert and HashMap::remove
Insert(s, c, p) == (c :> p) @@ s
Remove(s, c) == [d \in {e \in DOMAIN s : e # c} |-> s[d]]

set_piece(b, c, p) == [b EXCEPT !.state = Insert(b.state, c, p)]
remove_piece(b, c) == [b EXCEPT !.state = Remove(b.state, c)]

BackRank(x) ==
    CASE x \in {1, 8} -> "Rook"
      [] x \in {2, 7} -> "Knight"
      [] x \in {3, 6} -> "Bishop"
      [] x = 4 -> "Queen"
      [] x = 5 -> "King"

StartState ==
    [c \in (1..8) \X {1, 2, 7, 8} |->
        CASE c[2] = 2 -> "WhitePawn"
          [] c[2] = 7 -> "BlackPawn"
          [] c[2] = 1 -> "White" \o BackRank(c[1])
          [] c[2] = 8 -> "Black" \o BackRank(c[1])]

\* Board::new()
NewBoard == MkBoard(StartState, 15, NoCoord, TRUE, <<>>)

\* Board::empty()
EmptyBoard == MkBoard(EmptyState, 15, NoCoord, TRUE, <<>>)

RECURSIVE SetPieces(_, _)
SetPieces(b, ps) ==
    IF ps = <<>> THEN b
    ELSE SetPieces(set_piece(b, Head(ps)[1], Head(ps)[2]), Tail(ps))

-----------------------------------------------------------------------------
(* Moves: movegen.rs 7-27.  One record shape; unused fields hold fillers. *)

Normal(from, to) == [kind |-> "Normal", from |-> from, to |-> to, piece |-> NoPiece, dir |-> "None"]
Castling(from, to) == [kind |-> "Castling", from |-> from, to |-> to, piece |-> NoPiece, dir |-> "None"]
EnPassant(from, to) == [kind |-> "EnPassant", from |-> from, to |-> to, piece |-> NoPiece, dir |-> "None"]
Promotion(from, to, p) == [kind |-> "Promotion", from |-> from, to |-> to, piece |-> p, dir |-> "None"]
InfiniteMove(from, d) == [kind |-> "InfiniteMove", from |-> from, to |-> NoCoord, piece |-> NoPiece, dir |-> d]
NoMove == [kind |-> "None", from |-> NoCoord, to |-> NoCoord, piece |-> NoPiece, dir |-> "None"]

-----------------------------------------------------------------------------
(* Move generation: movegen.rs 53-350.  Every generator returns the moves in *)
(* the order the source adds them to the MoveList.                           *)

\* faulty variant: a king is never counted as an opponent piece
is_opponent_piece_but_king(piece, target_piece) ==
    /\ target_piece \notin {"WhiteKing", "BlackKing"}
    /\ \/ is_white(piece) /\ is_black(target_piece)
       \/ is_black(piece) /\ is_white(target_piece)

\* faulty variant: any piece on the target square counts as an opponent
is_opponent_piece_any_colour(piece, target_piece) ==
    target_piece \in Piece

\* is_opponent_piece: the 72 listed pairs are the pairs of opposite colours
is_opponent_piece(piece, target_piece) ==
    \/ is_white(piece) /\ is_black(target_piece)
    \/ is_black(piece) /\ is_white(target_piece)

PromotionPieces == <<"WhiteQueen", "WhiteRook", "WhiteKnight", "WhiteBishop">>

Promotions(from, to) == [i \in 1..4 |-> Promotion(from, to, PromotionPieces[i])]

PawnCapture(b, coord, piece, dx, direction, promotion_row) ==
    LET capture == Coordinate(coord[1] + dx, coord[2] + direction)
        target_piece == get_piece(b, capture)
    IN  IF target_piece # NoPiece
        THEN IF is_opponent_piece(piece, target_piece)
             THEN IF capture[2] = promotion_row
                  THEN Promotions(coord, capture)
                  ELSE <<Normal(coord, capture)>>
             ELSE <<>>
        ELSE IF b.en_passant # NoCoord /\ capture = b.en_passant
             THEN <<EnPassant(coord, capture)>>
             ELSE <<>>

generate_pawn_moves(b, coord, piece) ==
    LET direction == IF piece = "WhitePawn" THEN 1 ELSE -1
        start_row == IF piece = "WhitePawn" THEN 2 ELSE 7
        promotion_row == IF piece = "WhitePawn" THEN 8 ELSE 1
        forward == Coordinate(coord[1], coord[2] + direction)
        double_forward == Coordinate(coord[1], coord[2] + 2 * direction)
        single == IF get_piece(b, forward) = NoPiece
                  THEN IF forward[2] = promotion_row
                       THEN Promotions(coord, forward)
                       ELSE <<Normal(coord, forward)>>
                  ELSE <<>>
        double == IF coord[2] = start_row
                     /\ get_piece(b, double_forward) = NoPiece
                     /\ get_piece(b, forward) = NoPiece
                  THEN <<Normal(coord, double_forward)>>
                  ELSE <<>>
    IN  single \o double
        \o PawnCapture(b, coord, piece, 1, direction, promotion_row)
        \o PawnCapture(b, coord, piece, -1, direction, promotion_row)

\* the sign tests of the two scans (movegen.rs 142-143 and 185-187)
OnRookRay(t, c, dx, dy) ==
    \/ dx = 0 /\ t[1] = c[1] /\ ((dy > 0 /\ t[2] > c[2]) \/ (dy < 0 /\ t[2] < c[2]))
    \/ dy = 0 /\ t[2] = c[2] /\ ((dx > 0 /\ t[1] > c[1]) \/ (dx < 0 /\ t[1] < c[1]))

OnBishopRay(t, c, dx, dy) ==
    /\ ((dx > 0 /\ t[1] > c[1]) \/ (dx < 0 /\ t[1] < c[1]))
    /\ ((dy > 0 /\ t[2] > c[2]) \/ (dy < 0 /\ t[2] < c[2]))
    /\ Abs(t[1] - c[1]) = Abs(t[2] - c[2])

\* faulty variant: the distance is always taken along the rank
RayDist_along_rank(t, c, dx) == Abs(t[1] - c[1])

\* distance the scan compares: |dy| on a file, |dx| on a rank or a diagonal
RayDist(t, c, dx) == IF dx = 0 THEN Abs(t[2] - c[2]) ELSE Abs(t[1] - c[1])

\* closest_piece after the scan of board.state: the piece of the ray no other
\* piece of the ray is strictly nearer than (the scan replaces on "<" only)
ClosestPiece(ray, c, dx) ==
    CHOOSE t \in ray : \A u \in ray : RayDist(t, c, dx) <= RayDist(u, c, dx)

\* the scan itself (movegen.rs 141-150, 184-192) over the pieces of the ray in
\* the order the HashMap yields them: a piece replaces closest_piece when
\* there is none yet or when it is strictly nearer
RECURSIVE ScanClosest(_, _, _, _)
ScanClosest(order, c, dx, closest_piece) ==
    IF order = <<>> THEN closest_piece
    ELSE LET t == Head(order)
         IN  ScanClosest(Tail(order), c, dx,
                         IF closest_piece = NoCoord \/ RayDist(t, c, dx) < RayDist(closest_piece, c, dx)
                         THEN t ELSE closest_piece)

\* one direction of generate_rook_moves / generate_bishop_moves
RayMoves(b, coord, piece, ray, dx, dirName) ==
    IF ray # {}
    THEN LET target_coord == ClosestPiece(ray, coord, dx)
         IN  IF is_opponent_piece(piece, b.state[target_coord])
             THEN <<Normal(coord, target_coord)>>
             ELSE <<>>
    ELSE <<InfiniteMove(coord, dirName)>>

RookRay(b, coord, dx, dy) == {t \in DOMAIN b.state : OnRookRay(t, coord, dx, dy)}
BishopRay(b, coord, dx, dy) == {t \in DOMAIN b.state : OnBishopRay(t, coord, dx, dy)}

generate_rook_moves(b, coord, piece) ==
    RayMoves(b, coord, piece, RookRay(b, coord, 0, 1), 0, "Top")
    \o RayMoves(b, coord, piece, RookRay(b, coord, 0, -1), 0, "Bottom")
    \o RayMoves(b, coord, piece, RookRay(b, coord, 1, 0), 1, "Right")
    \o RayMoves(b, coord, piece, RookRay(b, coord, -1, 0), -1, "Left")

generate_bishop_moves(b, coord, piece) ==
    RayMoves(b, coord, piece, BishopRay(b, coord, 1, 1), 1, "TopRight")
    \o RayMoves(b, coord, piece, BishopRay(b, coord, 1, -1), 1, "BottomRight")
    \o RayMoves(b, coord, piece, BishopRay(b, coord, -1, 1), -1, "TopLeft")
    \o RayMoves(b, coord, piece, BishopRay(b, coord, -1, -1), -1, "BottomLeft")

\* faulty variant: the rook moves are added twice
generate_queen_moves_rook_twice(b, coord, piece) ==
    generate_rook_moves(b, coord, piece) \o generate_rook_moves(b, coord, piece)
    \o generate_bishop_moves(b, coord, piece)

generate_queen_moves(b, coord, piece) ==
    generate_rook_moves(b, coord, piece) \o generate_bishop_moves(b, coord, piece)

\* faulty variant: the step is emitted whatever stands on the target
StepMove_any_target(b, coord, piece, d) ==
    <<Normal(coord, Coordinate(coord[1] + d[1], coord[2] + d[2]))>>

\* a fixed-offset step: allowed onto an empty square or an opponent piece
StepMove(b, coord, piece, d) ==
    LET next_coord == Coordinate(coord[1] + d[1], coord[2] + d[2])
        target_piece == get_piece(b, next_coord)
    IN  IF target_piece # NoPiece /\ ~is_opponent_piece(piece, target_piece)
        THEN <<>>
        ELSE <<Normal(coord, next_coord)>>

RECURSIVE StepMoves(_, _, _, _)
StepMoves(b, coord, piece, ds) ==
    IF ds = <<>> THEN <<>>
    ELSE StepMove(b, coord, piece, Head(ds)) \o StepMoves(b, coord, piece, Tail(ds))

knight_moves == << <<2, 1>>, <<2, -1>>, <<-2, 1>>, <<-2, -1>>,
                   <<1, 2>>, <<1, -2>>, <<-1, 2>>, <<-1, -2>> >>

king_moves == << <<1, 0>>, <<1, 1>>, <<0, 1>>, <<-1, 1>>,
                 <<-1, 0>>, <<-1, -1>>, <<0, -1>>, <<1, -1>> >>

\* faulty variant: the knight stays on the files and ranks 1 to 8
generate_knight_moves_on_8x8(b, coord, piece) ==
    SelectSeq(StepMoves(b, coord, piece, knight_moves),
              LAMBDA mv : mv.to[1] \in 1..8 /\ mv.to[2] \in 1..8)

generate_knight_moves(b, coord, piece) == StepMoves(b, coord, piece, knight_moves)

\* the castling test of generate_king_moves: mask bit set and the files empty
CastlingMove(b, coord, mask, files, row, king_to) ==
    IF HasBits(b.castling_rights, mask)
       /\ \A x \in files : get_piece(b, Coordinate(x, row)) = NoPiece
    THEN <<Castling(coord, Coordinate(king_to, row))>>
    ELSE <<>>

generate_king_moves(b, coord, piece) ==
    StepMoves(b, coord, piece, king_moves)
    \o (IF piece = "WhiteKing" /\ coord = Coordinate(5, 1)
        THEN CastlingMove(b, coord, 8, {6, 7}, 1, 7) \o CastlingMove(b, coord, 4, {4, 3, 2}, 1, 3)
        ELSE IF piece = "BlackKing" /\ coord = Coordinate(5, 8)
        THEN CastlingMove(b, coord, 2, {6, 7}, 8, 7) \o CastlingMove(b, coord, 1, {4, 3, 2}, 8, 3)
        ELSE <<>>)

PieceMoves(b, coord) ==
    LET piece == b.state[coord]
    IN  CASE piece \in {"WhitePawn", "BlackPawn"} -> generate_pawn_moves(b, coord, piece)
          [] piece \in {"WhiteRook", "BlackRook"} -> generate_rook_moves(b, coord, piece)
          [] piece \in {"WhiteKnight", "BlackKnight"} -> generate_knight_moves(b, coord, piece)
          [] piece \in {"WhiteBishop", "BlackBishop"} -> generate_bishop_moves(b, coord, piece)
          [] piece \in {"WhiteQueen", "BlackQueen"} -> generate_queen_moves(b, coord, piece)
          [] piece \in {"WhiteKing", "BlackKing"} -> generate_king_moves(b, coord, piece)

\* the pieces generate_moves dispatches on: those of the side to move
OwnSquares(b) ==
    {c \in DOMAIN b.state :
        (b.side_to_move /\ is_white(b.state[c])) \/ (~b.side_to_move /\ is_black(b.state[c]))}

RECURSIVE MovesOver(_, _)
MovesOver(b, coords) ==
    IF coords = {} THEN <<>>
    ELSE LET c == CHOOSE c \in coords : TRUE
         IN  PieceMoves(b, c) \o MovesOver(b, coords \ {c})

\* generate_moves: the MoveList, in one iteration order of the HashMap
generate_moves(b) == MovesOver(b, OwnSquares(b))

\* the moves of the list, as a set
MoveSet(b) == LET ml == generate_moves(b) IN {ml[i] : i \in 1..Len(ml)}

-----------------------------------------------------------------------------
(* Board::move_piece: board.rs 122-191 *)

\* the rook square a king step from its start square pairs with
\* (board.rs 143-171); NoCoord when the step is no castling step
CastlingRookFrom(piece, from, to) ==
    IF piece = "WhiteKing" /\ from = Coordinate(5, 1)
    THEN IF to = Coordinate(3, 1) THEN Coordinate(1, 1)
         ELSE IF to = Coordinate(7, 1) THEN Coordinate(8, 1)
         ELSE NoCoord
    ELSE IF piece = "BlackKing" /\ from = Coordinate(5, 8)
    THEN IF to = Coordinate(3, 8) THEN Coordinate(1, 8)
         ELSE IF to = Coordinate(7, 8) THEN Coordinate(8, 8)
         ELSE NoCoord
    ELSE NoCoord

CastlingRookTo(rook_from) ==
    IF rook_from[1] = 1 THEN Coordinate(4, rook_from[2]) ELSE Coordinate(6, rook_from[2])

\* the match on the moved piece that updates castling_rights (board.rs 174-182)
CastlingUpdate(cr, piece, from) ==
    CASE piece = "WhiteKing" -> AndNot(cr, 12)
      [] piece = "BlackKing" -> AndNot(cr, 3)
      [] piece = "WhiteRook" /\ from = Coordinate(1, 1) -> AndNot(cr, 8)
      [] piece = "WhiteRook" /\ from = Coordinate(8, 1) -> AndNot(cr, 4)
      [] piece = "BlackRook" /\ from = Coordinate(1, 8) -> AndNot(cr, 2)
      [] piece = "BlackRook" /\ from = Coordinate(8, 8) -> AndNot(cr, 1)
      [] OTHER -> cr

\* the en passant register after the move (board.rs 185-190)
EnPassantUpdate(piece, from, to) ==
    IF piece \in {"WhitePawn", "BlackPawn"} /\ Abs(from[2] - to[2]) = 2
    THEN Coordinate(from[1], (from[2] + to[2]) \div 2)
    ELSE NoCoord

\* the squares after the capture on `to` and the en passant capture (124-136)
AfterCaptures(b, from, to) ==
    LET s1 == Remove(b.state, to)
    IN  IF s1[from] \in {"WhitePawn", "BlackPawn"} /\ b.en_passant # NoCoord /\ to = b.en_passant
        THEN Remove(s1, Coordinate(to[1], from[2]))
        ELSE s1

\* the unwrap()s of move_piece that fail: no piece on `from` once `to` is
\* cleared (129), none left on `from` after the en passant removal (139),
\* no piece on the castling rook's square (148, 154, 162, 168)
MovePiecePanics(b, from, to) ==
    \/ from \notin DOMAIN Remove(b.state, to)
    \/ from \notin DOMAIN AfterCaptures(b, from, to)
    \/ LET s2 == AfterCaptures(b, from, to)
           piece == s2[from]
           s3 == Insert(Remove(s2, from), to, piece)
           rook_from == CastlingRookFrom(piece, from, to)
       IN  rook_from # NoCoord /\ rook_from \notin DOMAIN s3

move_piece(b, from, to) ==
    LET s2 == AfterCaptures(b, from, to)
        piece == s2[from]
        s3 == Insert(Remove(s2, from), to, piece)
        rook_from == CastlingRookFrom(piece, from, to)
        s4 == IF rook_from # NoCoord
              THEN Insert(Remove(s3, rook_from), CastlingRookTo(rook_from), s3[rook_from])
              ELSE s3
    IN  [b EXCEPT !.state = s4,
                  !.castling_rights = CastlingUpdate(b.castling_rights, piece, from),
                  !.en_passant = EnPassantUpdate(piece, from, to)]

-----------------------------------------------------------------------------
(* Board::evaluate: board.rs 193-265, PIECE_VALUES: board.rs 8.  The sums are *)
(* i16 in the source; the material of the boards evaluated here stays far    *)
(* below 2^15.                                                               *)

\* PIECE_VALUES[piece as usize]
PIECE_VALUES(piece) ==
    CASE piece \in {"WhitePawn", "BlackPawn"} -> 100
      [] piece \in {"WhiteRook", "BlackRook"} -> 700
      [] piece \in {"WhiteKnight", "BlackKnight"} -> 300
      [] piece \in {"WhiteBishop", "BlackBishop"} -> 400
      [] piece \in {"WhiteQueen", "BlackQueen"} -> 1200
      [] piece \in {"WhiteKing", "BlackKing"} -> 0

\* the squares holding a piece of one of the kinds
SquaresOf(b, kinds) == {c \in DOMAIN b.state : b.state[c] \in kinds}

\* the sum the loop accumulates over the squares
RECURSIVE Material(_, _)
Material(b, coords) ==
    IF coords = {} THEN 0
    ELSE LET c == CHOOSE c \in coords : TRUE
         IN  PIECE_VALUES(b.state[c]) + Material(b, coords \ {c})

evaluate(b) ==
    LET white_material == Material(b, SquaresOf(b, WhitePieces \ {"WhiteKing"}))
        black_material == Material(b, SquaresOf(b, BlackPieces \ {"BlackKing"}))
        white_minor_pieces == Cardinality(SquaresOf(b, {"WhiteKnight", "WhiteBishop"}))
        black_minor_pieces == Cardinality(SquaresOf(b, {"BlackKnight", "BlackBishop"}))
        white_has_queen_or_rook == SquaresOf(b, {"WhiteQueen", "WhiteRook"}) # {}
        black_has_queen_or_rook == SquaresOf(b, {"BlackQueen", "BlackRook"}) # {}
        white_has_pawn == SquaresOf(b, {"WhitePawn"}) # {}
        black_has_pawn == SquaresOf(b, {"BlackPawn"}) # {}
        white_insufficient_material ==
            ~white_has_queen_or_rook /\ (white_material = 0 /\ white_minor_pieces <= 1)
        black_insufficient_material ==
            ~black_has_queen_or_rook /\ (black_material = 0 /\ black_minor_pieces <= 1)
        score == white_material - black_material
    IN  IF ~black_has_pawn /\ ~white_has_pawn
           /\ white_insufficient_material /\ black_insufficient_material
        THEN 0
        ELSE IF b.side_to_move THEN score ELSE -score

-----------------------------------------------------------------------------
(* Board::is_attacked, king_position: board.rs 267-299 *)

\* the scan of the generated list for a Normal or Promotion move onto coord
Targets(ml, coord) ==
    \E i \in 1..Len(ml) : ml[i].kind \in {"Normal", "Promotion"} /\ ml[i].to = coord

\* faulty variant: side_to_move is not written back on the true return path
is_attacked_keeps_side_on_hit(b, coord, by_white) ==
    LET saved == b.side_to_move
        b1 == [b EXCEPT !.side_to_move = by_white]
        hit == Targets(generate_moves(b1), coord)
    IN  IF hit
        THEN [board |-> b1, ret |-> TRUE]
        ELSE [board |-> [b1 EXCEPT !.side_to_move = saved], ret |-> FALSE]

\* is_attacked(coord, by_white): the board it leaves and the value it returns.
\* side_to_move is overwritten for the generation and written back on both
\* return paths (279 and 287).
is_attacked(b, coord, by_white) ==
    LET saved == b.side_to_move
        b1 == [b EXCEPT !.side_to_move = by_white]
        hit == Targets(generate_moves(b1), coord)
    IN  IF hit
        THEN [board |-> [b1 EXCEPT !.side_to_move = saved], ret |-> TRUE]
        ELSE [board |-> [b1 EXCEPT !.side_to_move = saved], ret |-> FALSE]

\* the coordinates king_position can return: the scan of the HashMap returns
\* the first king of the colour it meets; none makes it panic
king_position(b, is_white_king) ==
    {c \in DOMAIN b.state :
        b.state[c] = (IF is_white_king THEN "WhiteKing" ELSE "BlackKing")}

-----------------------------------------------------------------------------
(* Board::make, Board::unmake: board.rs 301-327 *)

\* the match of make on the move's variant (304-317)
ApplyPanics(b, mv) ==
    mv.kind \in {"Normal", "Castling", "EnPassant"} /\ MovePiecePanics(b, mv.from, mv.to)

ApplyMove(b, mv) ==
    CASE mv.kind \in {"Normal", "Castling", "EnPassant"} -> move_piece(b, mv.from, mv.to)
      [] mv.kind = "Promotion" -> set_piece(remove_piece(b, mv.from), mv.to, mv.piece)
      [] OTHER -> b

\* The clone make pushes.  A clone carries a clone of the history vector as it
\* was before the push, which is the part of the vector below the clone; the
\* model keeps the clone's other four fields and reads its history off the
\* vector (see unmake).
Snapshot(b) ==
    [state |-> b.state, castling_rights |-> b.castling_rights,
     en_passant |-> b.en_passant, side_to_move |-> b.side_to_move]

\* faulty variant: the clone is pushed after the move has been applied
MakeMoved_push_after_move(b, mv) ==
    LET moved == ApplyMove(b, mv)
        pushed == [moved EXCEPT !.history = Append(b.history, Snapshot(moved))]
    IN  [pushed EXCEPT !.side_to_move = ~pushed.side_to_move]

\* faulty variant: a move that moves no piece does not pass the turn
MakeMoved_ray_keeps_side(b, mv) ==
    LET pushed == [b EXCEPT !.history = Append(b.history, Snapshot(b))]
        moved == ApplyMove(pushed, mv)
    IN  IF mv.kind = "InfiniteMove" THEN moved
        ELSE [moved EXCEPT !.side_to_move = ~moved.side_to_move]

\* make up to the side flip (302-319): snapshot pushed, move applied, side toggled
MakeMoved(b, mv) ==
    LET pushed == [b EXCEPT !.history = Append(b.history, Snapshot(b))]
        moved == ApplyMove(pushed, mv)
    IN  [moved EXCEPT !.side_to_move = ~moved.side_to_move]

\* faulty variant: the legality test asks whether the mover attacks its own king
MakeTest_attacker_is_mover(b, king_pos) ==
    LET r == is_attacked(b, king_pos, ~b.side_to_move)
    IN  [board |-> r.board, ret |-> ~r.ret]

\* the legality test that ends make (321-322), for the king the scan found
MakeTest(b, king_pos) ==
    LET r == is_attacked(b, king_pos, b.side_to_move)
    IN  [board |-> r.board, ret |-> ~r.ret]

\* make(mv) with king_pos the square king_position returned
make(b, mv, king_pos) == MakeTest(MakeMoved(b, mv), king_pos)

\* faulty variant: a delta unmake that puts everything back but the castling mask
unmake_keeps_castling(b, mv) ==
    LET top == b.history[Len(b.history)]
    IN  MkBoard(top.state, b.castling_rights, top.en_passant, top.side_to_move,
                SubSeq(b.history, 1, Len(b.history) - 1))

\* unmake(mv): the popped clone replaces the whole board, its history (the
\* vector below it) included
unmake(b, mv) ==
    LET top == b.history[Len(b.history)]
    IN  MkBoard(top.state, top.castling_rights, top.en_passant, top.side_to_move,
                SubSeq(b.history, 1, Len(b.history) - 1))

-----------------------------------------------------------------------------
(* Initial positions.  A position is created by Board::new() or by           *)
(* Board::empty() and set_piece (main.rs 32-38).  The positions "new" starts *)
(* from are the start position and positions a line of generated moves, each *)
(* accepted by make, leads to from it; they are computed with make itself.   *)

\* the board the variables hold
Self == MkBoard(state, castling_rights, en_passant, side_to_move, history)

N(x1, y1, x2, y2) == Normal(Coordinate(x1, y1), Coordinate(x2, y2))

Lines ==
    << <<>>,
       \* the black pawn has stepped two squares beside the white pawn on (5,5)
       << N(5, 2, 5, 4), N(1, 7, 1, 6), N(5, 4, 5, 5), N(4, 7, 4, 5) >>,
       \* both e-pawns have stepped two squares; White has unobstructed rays
       << N(5, 2, 5, 4), N(5, 7, 5, 5) >>,
       \* the knight on (3,7) attacks the black king
       << N(2, 1, 3, 3), N(1, 7, 1, 6), N(3, 3, 4, 5), N(1, 6, 1, 5), N(4, 5, 3, 7) >>,
       \* the knight on (2,6) can capture the rook on (1,8)
       << N(2, 1, 3, 3), N(8, 7, 8, 6), N(3, 3, 1, 4), N(8, 6, 8, 5), N(1, 4, 2, 6), N(8, 5, 8, 4) >>,
       \* White can castle short: (6,1) and (7,1) are empty
       << N(5, 2, 5, 4), N(1, 7, 1, 6), N(6, 1, 1, 6), N(8, 7, 8, 6), N(7, 1, 6, 3), N(8, 6, 8, 5) >> >>

\* the king make tests: the only king of the mover in these lines
OneKing(b, is_white_king) == CHOOSE c \in king_position(b, is_white_king) : TRUE

RECURSIVE PlayLine(_, _)
PlayLine(b, line) ==
    IF line = <<>> THEN b
    ELSE PlayLine(make(b, Head(line), OneKing(MakeMoved(b, Head(line)), b.side_to_move)).board,
                  Tail(line))

\* every move of the line is in the generated list and make returns true
RECURSIVE LineOk(_, _)
LineOk(b, line) ==
    IF line = <<>> THEN TRUE
    ELSE /\ Head(line) \in MoveSet(b)
         /\ ~ApplyPanics(b, Head(line))
         /\ LET r == make(b, Head(line), OneKing(MakeMoved(b, Head(line)), b.side_to_move))
            IN  r.ret /\ LineOk(r.board, Tail(line))

Scenarios ==
    << \* main.rs 32-38
       << <<Coordinate(4, 1), "BlackKing">>, <<Coordinate(4, 8), "WhiteKing">>,
          <<Coordinate(3, -5), "WhiteRook">>, <<Coordinate(6, -5), "WhiteRook">>,
          <<Coordinate(0, -10), "WhiteRook">> >>,
       \* kings and a rook each on start squares, a pawn each about to promote
       << <<Coordinate(5, 1), "WhiteKing">>, <<Coordinate(5, 8), "BlackKing">>,
          <<Coordinate(8, 1), "WhiteRook">>, <<Coordinate(1, 8), "BlackRook">>,
          <<Coordinate(2, 7), "WhitePawn">>, <<Coordinate(7, 2), "BlackPawn">> >> >>

NoTrail == <<>>

InitLast(b) ==
    [op |-> "init", mv |-> NoMove, coord |-> NoCoord, by |-> FALSE, ret |-> FALSE,
     pre |-> b, paired |-> FALSE, again |-> FALSE, prev |-> FALSE]

\* Searcher::new() (search.rs 39-64); killers, pv_table and pv_length are
\* functions holding the entries written so far, every other entry being the
\* default move, respectively 0
default_move == Normal(Coordinate(0, 0), Coordinate(0, 0))

NoEntries == [k \in {} |-> default_move]

NewSearcher ==
    [ply |-> 0, nodes |-> 0, killers |-> NoEntries, pv_table |-> NoEntries,
     pv_length |-> NoEntries, follow_pv |-> FALSE, score_pv |-> FALSE,
     full_depth_moves |-> 3, reduction_limit |-> 2, timeset |-> FALSE]

\* search_position is not running; recorded lists the moves line 104 has read
\* off pv_table[0][0], one for each pass of the loop that got there
NoCall ==
    [pc |-> "idle", depth |-> 0, current_depth |-> 0, score |-> 0, best_move |-> NoMove,
     broke |-> FALSE, recorded |-> <<>>]

\* no call has returned
NoValue == [fn |-> "None", ret |-> 0, alpha |-> 0, beta |-> 0, depth |-> 0, line |-> 0]

NoSearch ==
    /\ searcher = NewSearcher
    /\ STOP = FALSE
    /\ sp = NoCall
    /\ calls = <<>>
    /\ value = NoValue

InitBoard(b, how) ==
    /\ state = b.state
    /\ castling_rights = b.castling_rights
    /\ en_passant = b.en_passant
    /\ side_to_move = b.side_to_move
    /\ history = b.history
    /\ status = "running"
    /\ created = how
    /\ trail = NoTrail
    /\ last = InitLast(b)

InitFrom(b, how) == InitBoard(b, how) /\ NoSearch

Init ==
    \/ \E i \in DOMAIN Lines : LineOk(NewBoard, Lines[i]) /\ InitFrom(PlayLine(NewBoard, Lines[i]), "new")
    \/ \E i \in DOMAIN Scenarios : InitFrom(SetPieces(EmptyBoard, Scenarios[i]), "empty")

-----------------------------------------------------------------------------
(* The operations a caller runs on the board.  The caller makes its moves    *)
(* first and then queries and unmakes: is_attacked and unmake lead back to   *)
(* boards the caller has been on, so a make after them reaches no new board. *)

\* a make returned false and has not been unmade
illegal == trail # NoTrail /\ ~trail[Len(trail)].ret

\* the board came from Board::new() by generated moves only
genOnly == created = "new" /\ \A i \in DOMAIN trail : trail[i].generated

SetBoard(b) ==
    /\ state' = b.state
    /\ castling_rights' = b.castling_rights
    /\ en_passant' = b.en_passant
    /\ side_to_move' = b.side_to_move
    /\ history' = b.history

BoardUnchanged == UNCHANGED <<state, castling_rights, en_passant, side_to_move, history>>

\* a failed unwrap() or the panic! of king_position aborts the process
Panic(what, op, mv) ==
    /\ status' = what
    /\ last' = [InitLast(Self) EXCEPT !.op = op, !.mv = mv]
    /\ BoardUnchanged
    /\ UNCHANGED <<created, trail, searchVars>>

\* the caller makes a move on a running board whose last move was legal
CanMake ==
    /\ status = "running"
    /\ last.op \in {"init", "make"}
    /\ ~illegal
    /\ Len(trail) < MaxDepth

\* make(mv), whole: the panics of move_piece and king_position, else the move,
\* the side flip and the legality test
Make(mv, generated) ==
    /\ IF ApplyPanics(Self, mv)
       THEN Panic("panic_unwrap", "make", mv)
       ELSE \E moved \in {MakeMoved(Self, mv)} :
              \E kings \in {king_position(moved, ~moved.side_to_move)} :
                IF kings = {}
                THEN Panic("panic_king", "make", mv)
                ELSE \E king_pos \in kings :
                        \E r \in {MakeTest(moved, king_pos)} :
                            /\ SetBoard(r.board)
                            /\ status' = "running"
                            /\ trail' = Append(trail, [mv |-> mv, generated |-> generated, ret |-> r.ret])
                            /\ last' = [InitLast(Self) EXCEPT !.op = "make", !.mv = mv, !.ret = r.ret]
                            /\ UNCHANGED <<created, searchVars>>

\* the caller plays a move of the generated list
MakeGenerated ==
    /\ CanMake
    /\ \E mv \in MoveSet(Self) : Make(mv, TRUE)

\* moves a caller hands to make without asking the generator: a piece on a
\* rook's corner stepping one rank inward, and the step back (spec scenario 3)
CallerMoves ==
    {N(x, 1, x, 2) : x \in {1, 8}} \cup {N(x, 2, x, 1) : x \in {1, 8}}
    \cup {N(x, 8, x, 7) : x \in {1, 8}} \cup {N(x, 7, x, 8) : x \in {1, 8}}

MakeCaller ==
    /\ CanMake
    /\ \E mv \in CallerMoves \ MoveSet(Self) : Make(mv, FALSE)

\* unmake(mv) of the last make; with an empty history the pop's unwrap panics
Unmake ==
    /\ status = "running"
    /\ trail # NoTrail \/ history = <<>>
    /\ IF history = <<>>
       THEN Panic("panic_unwrap", "unmake", NoMove)
       ELSE LET mv == trail[Len(trail)].mv
            IN  /\ SetBoard(unmake(Self, mv))
                /\ status' = "running"
                /\ trail' = SubSeq(trail, 1, Len(trail) - 1)
                /\ last' = [InitLast(Self) EXCEPT
                                !.op = "unmake", !.ret = trail[Len(trail)].ret,
                                !.paired = (last.op = "make"),
                                !.pre = IF last.op = "make" THEN last.pre ELSE Self]
                /\ UNCHANGED <<created, searchVars>>

\* the squares a caller asks about: where the kings stand
QuerySquares == king_position(Self, TRUE) \cup king_position(Self, FALSE)

\* is_attacked(coord, by_white) called on the board; the caller asks once and
\* asks the same again once
IsAttacked ==
    /\ status = "running"
    /\ Len(trail) <= MaxQueryDepth
    /\ last.op \in {"init", "make", "is_attacked"}
    /\ \E coord \in QuerySquares, by_white \in BOOLEAN :
          LET again == last.op = "is_attacked"
          IN  /\ again => (~last.again /\ last.coord = coord /\ last.by = by_white)
              /\ \E r \in {is_attacked(Self, coord, by_white)} :
                    /\ SetBoard(r.board)
                    /\ last' = [InitLast(Self) EXCEPT
                                    !.op = "is_attacked", !.coord = coord, !.by = by_white,
                                    !.ret = r.ret, !.again = again,
                                    !.prev = IF again THEN last.ret ELSE FALSE]
                    /\ UNCHANGED <<status, created, trail, searchVars>>

Next == MakeGenerated \/ MakeCaller \/ Unmake \/ IsAttacked

Spec == Init /\ [][Next]_vars

-----------------------------------------------------------------------------
(* Properties of make, unmake and is_attacked.                               *)

afterMake == status = "running" /\ last.op = "make"

KingCount(b, is_white_king) == Cardinality(king_position(b, is_white_king))

PieceCount(b) == Cardinality(DOMAIN b.state)

\* C1: make(m) followed by unmake(m) restores squares, castling mask,
\* en_passant, side_to_move and the history stack to their values before make,
\* whether make returned true or false.
C1_MakeUnmakeRestores ==
    (status = "running" /\ last.op = "unmake" /\ last.paired) => Self = last.pre

\* an unmake right after a make that returned false
C1_Witness ==
    /\ status = "running" /\ last.op = "unmake" /\ last.paired
    /\ ~last.ret
    /\ Self = last.pre

\* C2: whenever make(m) returns true, the king of the side that moved is not
\* attacked by the opponent in the resulting position.
C2_TrueMeansKingSafe ==
    (afterMake /\ last.ret) =>
        \A k \in king_position(Self, ~side_to_move) : ~is_attacked(Self, k, side_to_move).ret

\* a make that returned true on a board where the mover's king was attacked
C2_Witness ==
    /\ afterMake /\ last.ret
    /\ \E k \in king_position(last.pre, last.pre.side_to_move) :
          is_attacked(last.pre, k, ~last.pre.side_to_move).ret

\* C3 as stated: when make(m) returns false the position is left as if the
\* move had never been made, without the caller calling unmake.
C3_FalseLeavesUnmade ==
    (afterMake /\ ~last.ret) => Self = last.pre

\* C3: when make(m) returns false the move stays applied: the squares, the
\* castling mask and en_passant are those of the moved position, the history
\* holds one more entry, the position before make, and side_to_move is the
\* opponent of the mover; unmake(m) is what brings the position before make back.
C3_FalseLeavesMoveApplied ==
    (afterMake /\ ~last.ret) =>
        /\ state = ApplyMove(last.pre, last.mv).state
        /\ castling_rights = ApplyMove(last.pre, last.mv).castling_rights
        /\ en_passant = ApplyMove(last.pre, last.mv).en_passant
        /\ side_to_move = ~last.pre.side_to_move
        /\ history = Append(last.pre.history, Snapshot(last.pre))
        /\ unmake(Self, last.mv) = last.pre

\* a make that returned false and moved a piece
C3_Witness ==
    /\ afterMake /\ ~last.ret
    /\ state # last.pre.state

\* the register the move just made calls for: the skipped square after a pawn's
\* vertical step of two squares, None otherwise
ExpectedEnPassant(pre, mv) ==
    IF /\ mv.kind \in {"Normal", "Castling", "EnPassant", "Promotion"}
       /\ get_piece(pre, mv.from) \in {"WhitePawn", "BlackPawn"}
       /\ mv.from[1] = mv.to[1]
       /\ Abs(mv.to[2] - mv.from[2]) = 2
    THEN Coordinate(mv.from[1], (mv.from[2] + mv.to[2]) \div 2)
    ELSE NoCoord

\* C4: after every make of any move kind, en_passant is Some(s) if and only if
\* the move just made was a pawn moving vertically by exactly two squares, s
\* being the square it skipped; after every other move it is None.
C4_EnPassantRegister ==
    afterMake => en_passant = ExpectedEnPassant(last.pre, last.mv)

OpponentPawn(is_white_mover) == IF is_white_mover THEN "BlackPawn" ELSE "WhitePawn"

\* C5: in every position reached from the start position by generated moves
\* whose make returned true, each EnPassant(from, to) the generator emits has an
\* opponent pawn on (to.x, from.y), and making it removes exactly that pawn.
C5_EnPassantHasVictim ==
    (status = "running" /\ genOnly /\ ~illegal) =>
        /\ \A mv \in MoveSet(Self) :
              mv.kind = "EnPassant" =>
                  get_piece(Self, Coordinate(mv.to[1], mv.from[2])) = OpponentPawn(side_to_move)
        /\ (last.op = "make" /\ last.mv.kind = "EnPassant") =>
              /\ PieceCount(Self) = PieceCount(last.pre) - 1
              /\ Coordinate(last.mv.to[1], last.mv.from[2]) \notin DOMAIN state

\* the king, the rook and their squares a castling bit stands for, and the
\* square the king castles to (movegen.rs 255-270)
Rights ==
    { [bit |-> 8, king |-> "WhiteKing", king_from |-> Coordinate(5, 1),
       rook |-> "WhiteRook", rook_from |-> Coordinate(8, 1), king_to |-> Coordinate(7, 1)],
      [bit |-> 4, king |-> "WhiteKing", king_from |-> Coordinate(5, 1),
       rook |-> "WhiteRook", rook_from |-> Coordinate(1, 1), king_to |-> Coordinate(3, 1)],
      [bit |-> 2, king |-> "BlackKing", king_from |-> Coordinate(5, 8),
       rook |-> "BlackRook", rook_from |-> Coordinate(8, 8), king_to |-> Coordinate(7, 8)],
      [bit |-> 1, king |-> "BlackKing", king_from |-> Coordinate(5, 8),
       rook |-> "BlackRook", rook_from |-> Coordinate(1, 8), king_to |-> Coordinate(3, 8)] }

\* C6: a castling-rights bit is 1 only if its king and its rook stand on their
\* starting squares; whenever the generator emits a Castling move a rook of the
\* mover's colour stands on the corner, and make(Castling) does not fail for a
\* missing rook.
C6_CastlingRightsSound ==
    /\ ~(status = "panic_unwrap" /\ last.op = "make" /\ last.mv.kind = "Castling")
    /\ status = "running" =>
          \A r \in Rights :
              HasBits(castling_rights, r.bit) =>
                  get_piece(Self, r.king_from) = r.king /\ get_piece(Self, r.rook_from) = r.rook
    /\ status = "running" =>
          \A mv \in MoveSet(Self) :
              mv.kind = "Castling" =>
                  \E r \in Rights :
                      /\ r.king_from = mv.from /\ r.king_to = mv.to
                      /\ get_piece(Self, r.rook_from) = r.rook

\* the bits that belong to a piece on a square: a rook on its corner has the
\* bit of that corner, a king both bits of its colour
OwnBits(piece, sq) ==
    CASE piece = "WhiteKing" -> 12
      [] piece = "BlackKing" -> 3
      [] \E r \in Rights : r.rook = piece /\ r.rook_from = sq ->
            (CHOOSE r \in Rights : r.rook = piece /\ r.rook_from = sq).bit
      [] OTHER -> 0

Rooks == {"WhiteRook", "BlackRook"}

\* C7: a rook leaving (1,1) clears the WhiteQueenside bit (1<<2) and leaves the
\* WhiteKingside bit (1<<3); a rook leaving (8,1), (1,8) or (8,8) likewise
\* clears exactly the bit of its own corner.
C7_RookMoveClearsOwnBit ==
    (/\ afterMake /\ last.mv.kind = "Normal"
     /\ get_piece(last.pre, last.mv.from) \in Rooks
     /\ OwnBits(get_piece(last.pre, last.mv.from), last.mv.from) # 0) =>
        castling_rights =
            AndNot(last.pre.castling_rights,
                   OwnBits(get_piece(last.pre, last.mv.from), last.mv.from))

\* C8: when a make captures a rook on its starting corner or a king, by a
\* Normal move or by a Promotion, the castling bits of the captured piece are
\* cleared in the resulting position.
C8_CaptureClearsBits ==
    (afterMake /\ last.mv.kind \in {"Normal", "Promotion"}) =>
        ~HasBits(castling_rights, OwnBits(get_piece(last.pre, last.mv.to), last.mv.to))

C10_IsAttackedPure ==
    (status = "running" /\ last.op = "is_attacked") =>
        /\ Self = last.pre
        /\ last.again => last.ret = last.prev

\* the second of two equal calls, returning true, asked for a side that is not
\* the side to move
C10_Witness ==
    /\ status = "running" /\ last.op = "is_attacked"
    /\ last.again /\ last.ret
    /\ last.by # side_to_move

-----------------------------------------------------------------------------
(* generate_moves called on a position (movegen.rs 53-78).  The positions    *)
(* are those of Init, a rook position with both kings on the rook's file,    *)
(* and probe boards: one piece of each kind on a fixed square with up to two *)
(* other pieces on the eight rays around it.                                 *)

\* probe pieces stand at most this many squares from the probed piece
MaxDist == 2

ProbeOrigin(piece) == IF piece = "BlackPawn" THEN Coordinate(4, 2) ELSE Coordinate(4, 7)

ProbeSquares(o) ==
    {Coordinate(o[1] + k * king_moves[i][1], o[2] + k * king_moves[i][2]) :
        i \in 1..8, k \in 1..MaxDist}

OtherPieces == {"WhiteBishop", "BlackRook"}

NoPlacement == <<>>

Placements(o) == {<<c, p>> : c \in ProbeSquares(o), p \in OtherPieces} \cup {NoPlacement}

Place(b, pl) == IF pl = NoPlacement THEN b ELSE set_piece(b, pl[1], pl[2])

ProbeBoard(piece, stm, first, second) ==
    [Place(Place(set_piece(EmptyBoard, ProbeOrigin(piece), piece), first), second)
        EXCEPT !.side_to_move = stm]

\* White Rook (0,0), White King (0,-5), Black King (0,5), White to move
RookBoard ==
    SetPieces(EmptyBoard, << <<Coordinate(0, 0), "WhiteRook">>,
                             <<Coordinate(0, -5), "WhiteKing">>,
                             <<Coordinate(0, 5), "BlackKing">> >>)

GenInit ==
    \/ Init
    \/ InitFrom(RookBoard, "empty")
    \/ \E piece \in Piece, stm \in BOOLEAN :
         \E first, second \in Placements(ProbeOrigin(piece)) :
            InitFrom(ProbeBoard(piece, stm, first, second), "empty")

\* generate_moves(&board, &mut move_list): the list is what the call leaves
GenerateMoves ==
    /\ status = "running"
    /\ last.op = "init"
    /\ last' = [InitLast(Self) EXCEPT !.op = "generate_moves", !.ret = generate_moves(Self)]
    /\ BoardUnchanged
    /\ UNCHANGED <<status, created, trail, searchVars>>

GenNext == GenerateMoves

SpecGen == GenInit /\ [][GenNext]_vars

-----------------------------------------------------------------------------
(* Properties of generate_moves.                                             *)

genDone == status = "running" /\ last.op = "generate_moves"

OppositeColours(p, q) == (is_white(p) /\ is_black(q)) \/ (is_black(p) /\ is_white(q))

Step(c, d) == Coordinate(c[1] + d[1], c[2] + d[2])

\* C11: every Normal or Promotion move of the list has a target square that is
\* empty or holds a piece of the colour opposite to the moving piece.
C11_TargetsNotOwn ==
    genDone =>
        \A i \in 1..Len(last.ret) :
            last.ret[i].kind \in {"Normal", "Promotion"} =>
                \/ get_piece(Self, last.ret[i].to) = NoPiece
                \/ OppositeColours(get_piece(Self, last.ret[i].from),
                                   get_piece(Self, last.ret[i].to))

\* a king to move with a friendly and an opposing piece beside it: the list
\* has the capture and not the step onto the friend
C11_Witness ==
    /\ genDone
    /\ \E c \in OwnSquares(Self), i, j \in 1..8 :
          /\ state[c] \in {"WhiteKing", "BlackKing"}
          /\ get_piece(Self, Step(c, king_moves[i])) # NoPiece
          /\ OppositeColours(state[c], get_piece(Self, Step(c, king_moves[i])))
          /\ get_piece(Self, Step(c, king_moves[j])) # NoPiece
          /\ ~OppositeColours(state[c], get_piece(Self, Step(c, king_moves[j])))
          /\ \E k \in 1..Len(last.ret) : last.ret[k] = Normal(c, Step(c, king_moves[i]))
          /\ \A k \in 1..Len(last.ret) : last.ret[k] # Normal(c, Step(c, king_moves[j]))

\* C12: the move list holds no two equal moves.
C12_NoDuplicates ==
    genDone =>
        \A i, j \in 1..Len(last.ret) : i # j => last.ret[i] # last.ret[j]

\* a queen to move whose list has a capture and an unobstructed ray
C12_Witness ==
    /\ genDone
    /\ \E c \in OwnSquares(Self), i, j \in 1..Len(last.ret) :
          /\ state[c] \in {"WhiteQueen", "BlackQueen"}
          /\ last.ret[i].from = c /\ last.ret[i].kind = "Normal"
          /\ last.ret[j].from = c /\ last.ret[j].kind = "InfiniteMove"

\* C13: every Promotion(from, to, new_piece) of the list has new_piece a Queen,
\* Rook, Knight or Bishop of the colour of the pawn on from.
C13_PromotionKeepsColour ==
    genDone =>
        \A i \in 1..Len(last.ret) :
            last.ret[i].kind = "Promotion" =>
                /\ is_white(last.ret[i].piece) <=> is_white(get_piece(Self, last.ret[i].from))
                /\ last.ret[i].piece \notin {"WhitePawn", "BlackPawn", "WhiteKing", "BlackKing"}

Orthogonal == {<<0, 1>>, <<0, -1>>, <<1, 0>>, <<-1, 0>>}
Diagonal == {<<1, 1>>, <<1, -1>>, <<-1, 1>>, <<-1, -1>>}

SliderDirs(piece) ==
    CASE piece \in {"WhiteRook", "BlackRook"} -> Orthogonal
      [] piece \in {"WhiteBishop", "BlackBishop"} -> Diagonal
      [] piece \in {"WhiteQueen", "BlackQueen"} -> Orthogonal \cup Diagonal
      [] OTHER -> {}

DirName(d) ==
    CASE d = <<0, 1>> -> "Top" [] d = <<0, -1>> -> "Bottom"
      [] d = <<1, 0>> -> "Right" [] d = <<-1, 0>> -> "Left"
      [] d = <<1, 1>> -> "TopRight" [] d = <<1, -1>> -> "BottomRight"
      [] d = <<-1, 1>> -> "TopLeft" [] d = <<-1, -1>> -> "BottomLeft"

\* squares between c and t counted as king steps
Steps(t, c) ==
    IF Abs(t[1] - c[1]) > Abs(t[2] - c[2]) THEN Abs(t[1] - c[1]) ELSE Abs(t[2] - c[2])

\* t lies on the ray from c in direction d
Toward(c, t, d) ==
    /\ t # c
    /\ t[1] - c[1] = Steps(t, c) * d[1]
    /\ t[2] - c[2] = Steps(t, c) * d[2]

PiecesToward(b, c, d) == {t \in DOMAIN b.state : Toward(c, t, d)}

Nearest(ray, c) == CHOOSE t \in ray : \A u \in ray : Steps(t, c) <= Steps(u, c)

\* the orders the scan can meet the pieces of a ray in
Orders(ray) ==
    {f \in [1..Cardinality(ray) -> ray] :
        \A i, j \in 1..Cardinality(ray) : i # j => f[i] # f[j]}

\* rays of at most this many pieces are scanned in every order
MaxScan == 3

\* C14: for every rook, bishop or queen of the side to move and every direction
\* it moves in, the list holds exactly one of: Normal(from, square of the nearest
\* piece of the ray) when that piece is an opponent; nothing when it is
\* friendly; InfiniteMove(from, direction) when the ray is empty; and the scan
\* finds the nearest piece in whatever order it meets the pieces.
C14_SlidingRays ==
    genDone =>
        \A c \in OwnSquares(Self) :
            /\ \A d \in SliderDirs(state[c]) :
                  LET ray == PiecesToward(Self, c, d)
                      normals == {i \in 1..Len(last.ret) :
                                     /\ last.ret[i].kind = "Normal" /\ last.ret[i].from = c
                                     /\ Toward(c, last.ret[i].to, d)}
                      rays == {i \in 1..Len(last.ret) :
                                     /\ last.ret[i].kind = "InfiniteMove" /\ last.ret[i].from = c
                                     /\ last.ret[i].dir = DirName(d)}
                  IN  IF ray = {}
                      THEN normals = {} /\ Cardinality(rays) = 1
                      ELSE /\ rays = {}
                           /\ IF OppositeColours(state[c], state[Nearest(ray, c)])
                              THEN /\ Cardinality(normals) = 1
                                   /\ \A i \in normals : last.ret[i].to = Nearest(ray, c)
                              ELSE normals = {}
                           /\ Cardinality(ray) <= MaxScan =>
                                 \A order \in Orders(ray) :
                                     ScanClosest(order, c, d[1], NoCoord) = Nearest(ray, c)
            /\ SliderDirs(state[c]) # {} =>
                  \A i \in 1..Len(last.ret) :
                      last.ret[i].from = c =>
                          \/ /\ last.ret[i].kind = "InfiniteMove"
                             /\ \E d \in SliderDirs(state[c]) : last.ret[i].dir = DirName(d)
                          \/ /\ last.ret[i].kind = "Normal"
                             /\ \E d \in SliderDirs(state[c]) : Toward(c, last.ret[i].to, d)

\* a slider to move with two pieces on one ray, the nearer one an opponent, a
\* friendly piece nearest on another ray and an empty third ray
C14_Witness ==
    /\ genDone
    /\ \E c \in OwnSquares(Self) :
          \E d1, d2, d3 \in SliderDirs(state[c]) :
              /\ Cardinality(PiecesToward(Self, c, d1)) = 2
              /\ OppositeColours(state[c], state[Nearest(PiecesToward(Self, c, d1), c)])
              /\ PiecesToward(Self, c, d2) # {}
              /\ ~OppositeColours(state[c], state[Nearest(PiecesToward(Self, c, d2), c)])
              /\ PiecesToward(Self, c, d3) = {}

\* the moves of the list that are not InfiniteMove entries and move a piece of
\* one of the kinds
CountOf(ml, b, kinds) ==
    Cardinality({i \in 1..Len(ml) :
                    ml[i].kind # "InfiniteMove" /\ get_piece(b, ml[i].from) \in kinds})

\* C15 as stated: from the start position generate_moves returns exactly 20
\* moves that are not InfiniteMove entries, 16 pawn moves and 4 knight moves.
C15_StartHasTwenty ==
    (genDone /\ Self = NewBoard) =>
        /\ CountOf(last.ret, Self, Piece) = 20
        /\ CountOf(last.ret, Self, {"WhitePawn"}) = 16
        /\ CountOf(last.ret, Self, {"WhiteKnight"}) = 4

\* C15: from the start position generate_moves returns exactly 33 moves that
\* are not InfiniteMove entries: 16 pawn moves, 14 knight moves (7 for each
\* knight, 5 of them to squares outside files and ranks 1 to 8) and 3 king
\* moves to rank 0; and 11 InfiniteMove entries.
C15_StartHasThirtyThree ==
    (genDone /\ Self = NewBoard) =>
        /\ CountOf(last.ret, Self, Piece) = 33
        /\ CountOf(last.ret, Self, {"WhitePawn"}) = 16
        /\ CountOf(last.ret, Self, {"WhiteKnight"}) = 14
        /\ CountOf(last.ret, Self, {"WhiteKing"}) = 3
        /\ Len(last.ret) = 44

\* the list generated on the start position
C15_Witness ==
    /\ genDone /\ Self = NewBoard
    /\ Len(last.ret) > 0

MovesFrom(ml, c) == {ml[i] : i \in {j \in 1..Len(ml) : ml[j].from = c}}

\* C16 as stated: with a White Rook on (0,0), the White King on (0,-5) and the
\* Black King on (0,5), White to move, the rook has exactly the two InfiniteMove
\* entries Right and Left and no move along its file; the rest are king moves.
C16_RookHasTwoRays ==
    (genDone /\ Self = RookBoard) =>
        /\ MovesFrom(last.ret, Coordinate(0, 0)) =
              {InfiniteMove(Coordinate(0, 0), "Right"), InfiniteMove(Coordinate(0, 0), "Left")}
        /\ \A i \in 1..Len(last.ret) :
              last.ret[i].from \in {Coordinate(0, 0), Coordinate(0, -5)}

\* C16: in that position the rook has the two InfiniteMove entries Right and
\* Left, the capture Normal((0,0),(0,5)) of the Black King, the nearest piece up
\* its file, and nothing down its file towards its own king; the rest of the
\* list are the eight steps of the White King.
C16_RookHasTwoRaysAndCapture ==
    (genDone /\ Self = RookBoard) =>
        /\ MovesFrom(last.ret, Coordinate(0, 0)) =
              {InfiniteMove(Coordinate(0, 0), "Right"), InfiniteMove(Coordinate(0, 0), "Left"),
               Normal(Coordinate(0, 0), Coordinate(0, 5))}
        /\ MovesFrom(last.ret, Coordinate(0, -5)) =
              {Normal(Coordinate(0, -5), Step(Coordinate(0, -5), king_moves[i])) : i \in 1..8}
        /\ Len(last.ret) = 11

\* the list generated on the rook position
C16_Witness ==
    /\ genDone /\ Self = RookBoard
    /\ Len(last.ret) > 0

-----------------------------------------------------------------------------
(* evaluate called on a position: both kings and, of each other kind of      *)
(* piece, up to MaxPer pieces, either side to move.                          *)

\* pieces of one kind on an evaluated board
MaxPer == 1

EvalKinds ==
    <<"WhitePawn", "WhiteRook", "WhiteKnight", "WhiteBishop", "WhiteQueen",
      "BlackPawn", "BlackRook", "BlackKnight", "BlackBishop", "BlackQueen">>

\* the j-th piece of the k-th kind stands on (k, j), the kings on file 0
EvalState(counts) ==
    [c \in {Coordinate(0, 1), Coordinate(0, 2)}
           \cup {Coordinate(k, j) : k \in 1..10, j \in 1..MaxPer} |->
        IF c[1] = 0 THEN (IF c[2] = 1 THEN "WhiteKing" ELSE "BlackKing")
        ELSE IF c[2] <= counts[c[1]] THEN EvalKinds[c[1]] ELSE NoPiece]

EvalBoard(counts, stm) ==
    LET full == EvalState(counts)
    IN  [EmptyBoard EXCEPT
            !.state = [c \in {d \in DOMAIN full : full[d] # NoPiece} |-> full[c]],
            !.side_to_move = stm]

EvalInit ==
    \E counts \in [1..10 -> 0..MaxPer], stm \in BOOLEAN :
        InitFrom(EvalBoard(counts, stm), "empty")

\* board.evaluate()
Evaluate ==
    /\ status = "running"
    /\ last.op = "init"
    /\ last' = [InitLast(Self) EXCEPT !.op = "evaluate", !.ret = evaluate(Self)]
    /\ BoardUnchanged
    /\ UNCHANGED <<status, created, trail, searchVars>>

EvalNext == Evaluate

SpecEval == EvalInit /\ [][EvalNext]_vars

evalDone == status = "running" /\ last.op = "evaluate"

Minors == {"WhiteKnight", "WhiteBishop", "BlackKnight", "BlackBishop"}
Majors == {"WhitePawn", "WhiteRook", "WhiteQueen", "BlackPawn", "BlackRook", "BlackQueen"}

\* the value of a piece: Pawn 100, Knight 300, Bishop 400, Rook 700, Queen 1200, King 0
ValueOf(piece) ==
    CASE piece \in {"WhitePawn", "BlackPawn"} -> 100
      [] piece \in {"WhiteKnight", "BlackKnight"} -> 300
      [] piece \in {"WhiteBishop", "BlackBishop"} -> 400
      [] piece \in {"WhiteRook", "BlackRook"} -> 700
      [] piece \in {"WhiteQueen", "BlackQueen"} -> 1200
      [] OTHER -> 0

RECURSIVE ValueSum(_, _)
ValueSum(b, coords) ==
    IF coords = {} THEN 0
    ELSE LET c == CHOOSE c \in coords : TRUE
         IN  ValueOf(b.state[c]) + ValueSum(b, coords \ {c})

WhiteMinusBlack(b) ==
    ValueSum(b, SquaresOf(b, WhitePieces)) - ValueSum(b, SquaresOf(b, BlackPieces))

\* C17: evaluate returns 0 when neither side has a pawn, rook or queen and each
\* side has at most one knight or bishop; otherwise White material minus Black
\* material with White to move and its negation with Black to move.
C17_Evaluate ==
    evalDone =>
        IF /\ SquaresOf(Self, Majors) = {}
           /\ Cardinality(SquaresOf(Self, Minors \cap WhitePieces)) <= 1
           /\ Cardinality(SquaresOf(Self, Minors \cap BlackPieces)) <= 1
        THEN last.ret = 0
        ELSE last.ret = (IF side_to_move THEN WhiteMinusBlack(Self) ELSE -WhiteMinusBlack(Self))

-----------------------------------------------------------------------------
(* The search: search.rs.  negamax and quiescence are recursive; a call in   *)
(* progress is a record of its locals on the sequence calls, and a step of   *)
(* the search runs the innermost call from one stop_search poll, call or     *)
(* return to the next, so that STOP, which another thread may raise at any   *)
(* moment, is read once in a step.                                           *)

MAX_PLY == 127
INFINITY == 1000000
MATE_VALUE == INFINITY - 150
MATE_SCORE == INFINITY - 300
TIME_UP == INFINITY + 500

\* self.killers[i][ply], self.pv_table[row][col], self.pv_length[ply]
Killer(s, i, ply) ==
    IF <<i, ply>> \in DOMAIN s.killers THEN s.killers[<<i, ply>>] ELSE default_move

PvMove(s, row, col) ==
    IF <<row, col>> \in DOMAIN s.pv_table THEN s.pv_table[<<row, col>>] ELSE default_move

PvLength(s, ply) == IF ply \in DOMAIN s.pv_length THEN s.pv_length[ply] ELSE 0

\* stop_search (66-71): STOP, or the deadline when timeset; stoptime is 0,
\* which every reading of the system clock exceeds
stop_search == STOP \/ searcher.timeset

\* score_move (339-391)
score_move(s, b, mv) ==
    IF s.score_pv /\ PvMove(s, 0, s.ply) = mv
    THEN [s |-> [s EXCEPT !.score_pv = FALSE], ret |-> 16000]
    ELSE [s |-> s,
          ret |-> CASE mv.kind = "Normal" ->
                         IF get_piece(b, mv.to) # NoPiece
                         THEN 8000 + (PIECE_VALUES(get_piece(b, mv.to))
                                      - PIECE_VALUES(get_piece(b, mv.from)))
                         ELSE (IF Killer(s, 0, s.ply) = mv THEN 4000
                               ELSE IF Killer(s, 1, s.ply) = mv THEN 2500
                               ELSE 0)
                              + (IF get_piece(b, mv.from) \in {"WhiteKing", "BlackKing"}
                                    /\ Abs(mv.from[1] - mv.to[1]) = 2
                                 THEN 400 ELSE 0)
                    [] mv.kind = "Promotion" -> 9500 + PIECE_VALUES(mv.piece)
                    [] OTHER -> 0]

\* assign_move_scores (333-337): the scores of moves[from..], and the searcher
RECURSIVE assign_move_scores(_, _, _, _)
assign_move_scores(s, b, moves, move_index) ==
    IF move_index > Len(moves) THEN [s |-> s, ret |-> <<>>]
    ELSE LET one == score_move(s, b, moves[move_index])
             rest == assign_move_scores(one.s, b, moves, move_index + 1)
         IN  [s |-> rest.s, ret |-> <<one.ret>> \o rest.ret]

\* the scan of sort_next_move (397-402): the first index holding the greatest
\* score from start_index on
RECURSIVE BestIndex(_, _, _)
BestIndex(move_scores, index, best_index) ==
    IF index > Len(move_scores) THEN best_index
    ELSE BestIndex(move_scores, index + 1,
                   IF move_scores[index] > move_scores[best_index] THEN index ELSE best_index)

Swap(seq, i, j) == [seq EXCEPT ![i] = seq[j], ![j] = seq[i]]

\* sort_next_move (393-410): both arrays after the swap
sort_next_move(moves, move_scores, start_index) ==
    LET best_index == BestIndex(move_scores, start_index + 1, start_index)
    IN  [moves |-> Swap(moves, start_index, best_index),
         move_scores |-> Swap(move_scores, start_index, best_index)]

\* board.make(mv) as the search calls it: the board make leaves and its result
SearchMake(b, mv) ==
    LET moved == MakeMoved(b, mv)
    IN  MakeTest(moved, OneKing(moved, ~moved.side_to_move))

Max(a, b) == IF a > b THEN a ELSE b
Min(a, b) == IF a < b THEN a ELSE b

\* faulty variant: the root does not record its move
RecordPv_skips_root(s, mv) ==
    LET ply == s.ply
        copied == {<<ply, next_ply>> : next_ply \in (ply + 1)..(PvLength(s, ply + 1) - 1)}
        row == [k \in {<<ply, ply>>} \cup copied |->
                    IF k[2] = ply THEN mv ELSE PvMove(s, ply + 1, k[2])]
    IN  IF ply = 0 THEN s
        ELSE [s EXCEPT !.pv_table = row @@ s.pv_table,
                       !.pv_length = (ply :> PvLength(s, ply + 1)) @@ s.pv_length]

\* pv_table and pv_length after a move raised alpha at s.ply (306-310)
RecordPv(s, mv) ==
    LET ply == s.ply
        copied == {<<ply, next_ply>> : next_ply \in (ply + 1)..(PvLength(s, ply + 1) - 1)}
        row == [k \in {<<ply, ply>>} \cup copied |->
                    IF k[2] = ply THEN mv ELSE PvMove(s, ply + 1, k[2])]
    IN  [s EXCEPT !.pv_table = row @@ s.pv_table,
                  !.pv_length = (ply :> PvLength(s, ply + 1)) @@ s.pv_length]

\* the killers after a quiet move failed high at s.ply (314-315)
RecordKiller(s, mv) ==
    [s EXCEPT !.killers = (<<1, s.ply>> :> Killer(s, 0, s.ply)) @@ (<<0, s.ply>> :> mv)
                          @@ s.killers]

-----------------------------------------------------------------------------
(* The calls in progress *)

\* the locals of a call that has just been made; alpha0, beta0 and depth0 keep
\* the arguments as passed
NewCall(fn, alpha, beta, depth) ==
    [fn |-> fn, pc |-> "enter", alpha |-> alpha, beta |-> beta, depth |-> depth,
     alpha0 |-> alpha, beta0 |-> beta, depth0 |-> depth,
     pv_node |-> FALSE, is_root |-> FALSE, in_check |-> FALSE, eval |-> 0,
     moves |-> <<>>, move_scores |-> <<>>, count |-> 1,
     legal_moves |-> 0, moves_searched |-> 0, best_score |-> -INFINITY,
     skip_quiet |-> FALSE, mv |-> NoMove, is_quiet |-> FALSE, stage |-> "none"]

Top == calls[Len(calls)]

\* sp.pc is "called" while the negamax search_position called runs, and
\* "negamax" while a negamax another caller called runs
Running(fn, pc) ==
    /\ status = "running"
    /\ sp.pc \in {"called", "negamax"}
    /\ calls # <<>>
    /\ Top.fn = fn
    /\ Top.pc = pc

\* the innermost call goes on with the locals f
Continue(f) ==
    /\ calls' = [calls EXCEPT ![Len(calls)] = f]
    /\ value' = NoValue

\* the innermost call, its locals now f, calls fn
Call(f, fn, alpha, beta, depth) ==
    /\ calls' = Append([calls EXCEPT ![Len(calls)] = f], NewCall(fn, alpha, beta, depth))
    /\ value' = NoValue

\* the innermost call returns ret by the return statement on the given line
Return(ret, line) ==
    /\ calls' = SubSeq(calls, 1, Len(calls) - 1)
    /\ value' = [fn |-> Top.fn, ret |-> ret, alpha |-> Top.alpha0, beta |-> Top.beta0,
                 depth |-> Top.depth0, line |-> line]

\* faulty variant: a move make rejects is left on the board
Rejected_without_unmake(b, mv) == b

\* the board once a move make rejected is taken back (143-145, 264-266)
Rejected(b, mv) == unmake(b, mv)

\* faulty variant: the loop of quiescence goes on down to a score of 7000
BelowCaptures_from_7000(score) == score - 7000 < 0

\* the test that ends the loop of quiescence (139)
BelowCaptures(score) == score - 8000 < 0

\* faulty variant: a fail-soft stand pat, which returns the evaluation
StandPat_fail_soft(eval, beta) == eval

\* the value quiescence returns when the evaluation reaches beta (115-116)
StandPat(eval, beta) == beta

\* the list after sort_next_move(count), the move it returns
Sorted(f) ==
    LET sorted == sort_next_move(f.moves, f.move_scores, f.count)
    IN  [f EXCEPT !.moves = sorted.moves, !.move_scores = sorted.move_scores,
                  !.mv = sorted.moves[f.count]]

\* generate_moves and assign_move_scores (129-134, 231-236)
Listed(f, s, b) ==
    LET moves == generate_moves(b)
        scored == assign_move_scores(s, b, moves, 1)
    IN  [s |-> scored.s, f |-> [f EXCEPT !.moves = moves, !.move_scores = scored.ret]]

-----------------------------------------------------------------------------
(* quiescence: search.rs 110-165 *)

\* up to the move loop (111-134)
QuiescenceEnter ==
    /\ Running("quiescence", "enter")
    /\ \E entered \in {[searcher EXCEPT !.nodes = @ + 1]}, eval \in {evaluate(Self)} :
           IF eval >= Top.beta THEN searcher' = entered /\ Return(StandPat(eval, Top.beta), 116)
           ELSE IF entered.ply >= MAX_PLY THEN searcher' = entered /\ Return(eval, 122)
           ELSE IF stop_search THEN searcher' = entered /\ Return(TIME_UP, 126)
           ELSE \E l \in {Listed([Top EXCEPT !.eval = eval, !.alpha = Max(@, eval),
                                              !.pc = "loop"], entered, Self)} :
                    searcher' = l.s /\ Continue(l.f)
    /\ BoardUnchanged
    /\ UNCHANGED <<status, created, trail, last, STOP, sp>>

\* a pass of the loop up to the recursive call (136-149), or the return that
\* follows the loop (164)
QuiescencePass ==
    /\ Running("quiescence", "loop")
    /\ IF Top.count > Len(Top.moves)
       THEN Return(Top.alpha, 164) /\ BoardUnchanged /\ UNCHANGED searcher
       ELSE \E f \in {Sorted(Top)} :
                IF BelowCaptures(f.move_scores[f.count])
                THEN Return(f.alpha, 164) /\ BoardUnchanged /\ UNCHANGED searcher
                ELSE \E made \in {SearchMake(Self, f.mv)} :
                         IF ~made.ret
                         THEN /\ SetBoard(Rejected(made.board, f.mv))
                              /\ Continue([f EXCEPT !.count = @ + 1])
                              /\ UNCHANGED searcher
                         ELSE /\ SetBoard(made.board)
                              /\ searcher' = [searcher EXCEPT !.ply = @ + 1]
                              /\ Call([f EXCEPT !.pc = "wait"], "quiescence",
                                      -f.beta, -f.alpha, 0)
    /\ UNCHANGED <<status, created, trail, last, STOP, sp>>

\* the rest of the pass once the recursive call has returned (149-162)
QuiescenceResume ==
    /\ Running("quiescence", "wait")
    /\ value # NoValue
    /\ SetBoard(unmake(Self, Top.mv))
    /\ searcher' = [searcher EXCEPT !.ply = @ - 1]
    /\ LET score == -value.ret
       IN  IF stop_search THEN Return(TIME_UP, 154)
           ELSE IF score > Top.alpha /\ score >= Top.beta THEN Return(Top.beta, 160)
           ELSE Continue([Top EXCEPT !.alpha = Max(@, score), !.count = @ + 1,
                                     !.pc = "loop"])
    /\ UNCHANGED <<status, created, trail, last, STOP, sp>>

-----------------------------------------------------------------------------
(* negamax: search.rs 167-331 *)

\* up to the first stop_search poll (168-214)
NegamaxEnter ==
    /\ Running("negamax", "enter")
    /\ LET is_root == searcher.ply = 0
           counted == [searcher EXCEPT !.nodes = @ + 1]
           entered == [counted EXCEPT !.pv_length = (searcher.ply :> searcher.ply) @@ @]
           alpha == IF is_root THEN Top.alpha ELSE Max(Top.alpha, -MATE_VALUE)
           beta == IF is_root THEN Top.beta ELSE Min(Top.beta, MATE_VALUE - 1)
       IN  IF counted.ply >= MAX_PLY THEN searcher' = counted /\ Return(evaluate(Self), 177)
           ELSE IF ~is_root /\ alpha >= beta THEN searcher' = entered /\ Return(alpha, 198)
           ELSE IF Top.depth = 0
           THEN /\ searcher' = entered
                /\ calls' = [calls EXCEPT ![Len(calls)] = NewCall("quiescence", alpha, beta, 0)]
                /\ value' = NoValue
           ELSE IF stop_search THEN searcher' = entered /\ Return(0, 213)
           ELSE \E in_check \in {is_attacked(Self, OneKing(Self, side_to_move),
                                              ~side_to_move).ret} :
                    /\ searcher' = entered
                    /\ Continue([Top EXCEPT !.pv_node = Top.beta - Top.alpha > 1,
                                            !.is_root = is_root,
                                            !.alpha = alpha, !.beta = beta,
                                            !.in_check = in_check,
                                            !.depth = IF in_check THEN @ + 1 ELSE @,
                                            !.pc = "static"])
    /\ BoardUnchanged
    /\ UNCHANGED <<status, created, trail, last, STOP, sp>>

\* from the static evaluation to the move loop (216-241)
NegamaxStatic ==
    /\ Running("negamax", "static")
    /\ \E eval \in {evaluate(Self)} :
           LET eval_margin == 100 * Top.depth
           IN  IF ~Top.in_check /\ ~Top.pv_node /\ Top.depth < 3
                  /\ Abs(Top.beta - 1) > -49000 + 100 /\ eval - eval_margin >= Top.beta
               THEN Return(eval - eval_margin, 221) /\ UNCHANGED searcher
               ELSE IF stop_search THEN Return(TIME_UP, 227) /\ UNCHANGED searcher
               ELSE \E l \in {Listed([Top EXCEPT !.eval = eval, !.pc = "loop"],
                                      searcher, Self)} :
                        searcher' = l.s /\ Continue(l.f)
    /\ BoardUnchanged
    /\ UNCHANGED <<status, created, trail, last, STOP, sp>>

\* the search a pass makes first for its move (272-279); the score alpha + 1
\* of line 278 leads at once to the search of line 281
FirstStage(f, s) ==
    IF f.moves_searched = 0 THEN "full"
    ELSE IF f.moves_searched >= s.full_depth_moves /\ f.depth >= s.reduction_limit
            /\ ~f.in_check
    THEN "reduced"
    ELSE "narrow"

\* the recursive call of a stage (273, 276, 281, 283)
CallStage(f, stage) ==
    CASE stage = "reduced" -> Call([f EXCEPT !.stage = stage, !.pc = "wait"], "negamax",
                                   -f.alpha - 1, -f.alpha, f.depth - 2)
      [] stage = "narrow" -> Call([f EXCEPT !.stage = stage, !.pc = "wait"], "negamax",
                                  -f.alpha - 1, -f.alpha, f.depth - 1)
      [] stage \in {"full", "again"} ->
             Call([f EXCEPT !.stage = stage, !.pc = "wait"], "negamax",
                  -f.beta, -f.alpha, f.depth - 1)

\* faulty variant: a position without a legal move is scored as a mate
NoMoveValue_always_mate(in_check, ply) == -MATE_VALUE + ply

\* the value of a position without a legal move (322-328)
NoMoveValue(in_check, ply) == IF in_check THEN -MATE_VALUE + ply ELSE 0

\* a pass of the loop up to its first recursive call (243-279), or what
\* follows the loop (322-330)
NegamaxPass ==
    /\ Running("negamax", "loop")
    /\ IF Top.count > Len(Top.moves)
       THEN /\ IF Top.legal_moves = 0
               THEN Return(NoMoveValue(Top.in_check, searcher.ply), 323)
               ELSE Return(Top.alpha, 330)
            /\ BoardUnchanged /\ UNCHANGED searcher
       ELSE \E f \in {Sorted(Top)} :
            LET is_quiet == f.mv.kind \in {"Normal", "Promotion"}
                            /\ get_piece(Self, f.mv.to) = NoPiece
                is_killer == Killer(searcher, 0, searcher.ply) = f.mv
                             \/ Killer(searcher, 1, searcher.ply) = f.mv
            IN  IF is_quiet /\ f.skip_quiet
                THEN Continue([f EXCEPT !.count = @ + 1])
                     /\ BoardUnchanged /\ UNCHANGED searcher
                ELSE IF ~f.is_root /\ f.best_score > -INFINITY
                        /\ f.depth < 8 /\ is_quiet /\ ~is_killer /\ f.eval <= f.alpha
                        /\ Abs(f.alpha) < INFINITY - 100
                THEN Continue([f EXCEPT !.skip_quiet = TRUE, !.count = @ + 1])
                     /\ BoardUnchanged /\ UNCHANGED searcher
                ELSE \E made \in {SearchMake(Self, f.mv)} :
                         IF ~made.ret
                         THEN /\ SetBoard(Rejected(made.board, f.mv))
                              /\ Continue([f EXCEPT !.count = @ + 1])
                              /\ UNCHANGED searcher
                         ELSE /\ SetBoard(made.board)
                              /\ searcher' = [searcher EXCEPT !.ply = @ + 1]
                              /\ CallStage([f EXCEPT !.is_quiet = is_quiet,
                                                     !.legal_moves = @ + 1],
                                           FirstStage(f, searcher))
    /\ UNCHANGED <<status, created, trail, last, STOP, sp>>

\* the rest of the pass once a recursive call has returned (280-319)
NegamaxResume ==
    /\ Running("negamax", "wait")
    /\ value # NoValue
    /\ LET f == Top
           score == -value.ret
           searched == [f EXCEPT !.moves_searched = @ + 1, !.best_score = Max(@, score),
                                 !.alpha = Max(@, score), !.count = @ + 1, !.pc = "loop"]
           back == [searcher EXCEPT !.ply = @ - 1]
       IN  IF f.stage = "reduced" /\ score > f.alpha
           THEN /\ CallStage(f, "narrow") /\ BoardUnchanged
                /\ UNCHANGED <<searcher, status, last>>
           ELSE IF f.stage = "narrow" /\ score > f.alpha /\ score < f.beta
           THEN /\ CallStage(f, "again") /\ BoardUnchanged
                /\ UNCHANGED <<searcher, status, last>>
           ELSE /\ SetBoard(unmake(Self, f.mv))
                /\ IF stop_search
                   THEN /\ searcher' = back /\ Return(TIME_UP, 292)
                        /\ UNCHANGED <<status, last>>
                   ELSE IF score <= f.alpha
                   THEN /\ searcher' = back /\ Continue(searched)
                        /\ UNCHANGED <<status, last>>
                   ELSE IF back.ply + 1 >= MAX_PLY
                   THEN \* pv_length has MAX_PLY entries: the read of
                        \* pv_length[ply + 1] on line 307 is out of bounds
                        /\ status' = "panic_index"
                        /\ last' = [last EXCEPT !.op = "negamax", !.mv = f.mv]
                        /\ searcher' = [back EXCEPT !.pv_table =
                                            (<<back.ply, back.ply>> :> f.mv) @@ @]
                        /\ UNCHANGED <<calls, value>>
                   ELSE IF score >= f.beta
                   THEN /\ searcher' = IF f.is_quiet
                                       THEN RecordKiller(RecordPv(back, f.mv), f.mv)
                                       ELSE RecordPv(back, f.mv)
                        /\ Return(f.beta, 317)
                        /\ UNCHANGED <<status, last>>
                   ELSE /\ searcher' = RecordPv(back, f.mv) /\ Continue(searched)
                        /\ UNCHANGED <<status, last>>
    /\ UNCHANGED <<created, trail, STOP, sp>>

-----------------------------------------------------------------------------
(* search_position: search.rs 73-108, called on a position built by          *)
(* Board::empty() and set_piece as main.rs does, while another thread may    *)
(* raise STOP.                                                               *)

\* the position main.rs sets up (main.rs 32-38)
MainBoard ==
    SetPieces(EmptyBoard, << <<Coordinate(4, 1), "BlackKing">>,
                             <<Coordinate(4, 8), "WhiteKing">>,
                             <<Coordinate(3, -5), "WhiteRook">>,
                             <<Coordinate(6, -5), "WhiteRook">>,
                             <<Coordinate(0, -10), "WhiteRook">> >>)

\* A black king walled in by its own pawns: the pawns are blocked, by each
\* other and by the white pawns, and the one free square beside the king is
\* covered by the white pawn on (3,3).
Cage ==
    << <<Coordinate(4, 5), "BlackKing">>,
       <<Coordinate(3, 6), "BlackPawn">>, <<Coordinate(4, 6), "BlackPawn">>,
       <<Coordinate(5, 6), "BlackPawn">>, <<Coordinate(3, 5), "BlackPawn">>,
       <<Coordinate(5, 5), "BlackPawn">>, <<Coordinate(3, 4), "BlackPawn">>,
       <<Coordinate(5, 4), "BlackPawn">>,
       <<Coordinate(3, 3), "WhitePawn">>, <<Coordinate(5, 3), "WhitePawn">> >>

\* White to move, its knight two jumps from giving check
CageBoard ==
    SetPieces(EmptyBoard, Cage \o << <<Coordinate(0, 0), "WhiteKing">>,
                                     <<Coordinate(7, 8), "WhiteKnight">> >>)

\* White to move, its knight one jump from (2,6), where it gives check
MateBoard ==
    SetPieces(EmptyBoard, Cage \o << <<Coordinate(9, 0), "WhiteKing">>,
                                     <<Coordinate(0, 5), "WhiteKnight">> >>)

\* the knight gives check from (5,7); Black is to move
MatedBoard ==
    [SetPieces(EmptyBoard, Cage \o << <<Coordinate(0, 0), "WhiteKing">>,
                                      <<Coordinate(5, 7), "WhiteKnight">> >>)
        EXCEPT !.side_to_move = FALSE]

\* a rook that can take a pawn the black king defends
TradeBoard ==
    SetPieces(EmptyBoard, << <<Coordinate(0, 0), "WhiteRook">>,
                             <<Coordinate(0, -5), "WhiteKing">>,
                             <<Coordinate(0, 4), "BlackPawn">>,
                             <<Coordinate(1, 5), "BlackKing">> >>)

\* Black to move; a white pawn stands one step from promotion row 8
PromotionBoard ==
    [SetPieces(EmptyBoard, << <<Coordinate(0, 0), "WhiteKing">>,
                              <<Coordinate(5, 7), "WhitePawn">>,
                              <<Coordinate(12, 12), "BlackKing">> >>)
        EXCEPT !.side_to_move = FALSE]

\* the white king on (5,1) with both castling moves open to it
CastlingBoard ==
    SetPieces(EmptyBoard, << <<Coordinate(5, 1), "WhiteKing">>,
                             <<Coordinate(1, 1), "WhiteRook">>,
                             <<Coordinate(8, 1), "WhiteRook">>,
                             <<Coordinate(5, 12), "BlackKing">> >>)

\* White to move and in check from the rook on (0,7), with a rook of its own
\* whose four rays are empty
CheckBoard ==
    SetPieces(EmptyBoard, << <<Coordinate(0, 0), "WhiteKing">>,
                             <<Coordinate(5, 5), "WhiteRook">>,
                             <<Coordinate(0, 7), "BlackRook">>,
                             <<Coordinate(0, 9), "BlackKing">> >>)

\* White to move after a king step and the double step of the black pawn:
\* en_passant is (4,6), and the four rays of the white bishop are empty
OpenedBoard ==
    PlayLine(SetPieces(EmptyBoard, << <<Coordinate(0, 0), "WhiteKing">>,
                                      <<Coordinate(2, -5), "WhiteBishop">>,
                                      <<Coordinate(4, 7), "BlackPawn">>,
                                      <<Coordinate(9, 9), "BlackKing">> >>),
             << N(0, 0, 0, -1), N(4, 7, 4, 5) >>)

\* the greatest depth argument of the calls on the boards from CageBoard to
\* TradeBoard
MaxIterations == 2

\* the calls: the board and the depth argument
SearchInputs ==
    {[board |-> MainBoard, depth |-> 4], [board |-> TradeBoard, depth |-> 0]}
        \cup {[board |-> b, depth |-> 1] :
                  b \in {PromotionBoard, CastlingBoard, CheckBoard, OpenedBoard}}
        \cup {[board |-> b, depth |-> d] :
                  b \in {CageBoard, MateBoard, MatedBoard, TradeBoard}, d \in 1..MaxIterations}

SearchInit ==
    \E in \in SearchInputs, raised \in BOOLEAN :
        /\ InitBoard(in.board, "empty")
        /\ searcher = NewSearcher
        /\ STOP = raised
        /\ sp = [NoCall EXCEPT !.depth = in.depth]
        /\ calls = <<>>
        /\ value = NoValue

\* search_position up to the loop (74-76)
SearchStart ==
    /\ status = "running"
    /\ sp.pc = "idle"
    /\ STOP' = FALSE
    /\ sp' = [sp EXCEPT !.pc = "loop", !.current_depth = 1, !.best_move = default_move]
    /\ BoardUnchanged
    /\ UNCHANGED <<status, created, trail, last, searcher, calls, value>>

\* a pass of the loop up to the call of negamax (78-86)
SearchCall ==
    /\ status = "running"
    /\ sp.pc = "loop" /\ ~sp.broke /\ sp.current_depth <= sp.depth
    /\ IF stop_search
       THEN /\ sp' = [sp EXCEPT !.broke = TRUE]
            /\ UNCHANGED <<searcher, calls, value>>
       ELSE /\ sp' = [sp EXCEPT !.pc = "called", !.score = -INFINITY]
            /\ searcher' = [searcher EXCEPT !.follow_pv = TRUE]
            /\ calls' = <<NewCall("negamax", -INFINITY, INFINITY, sp.current_depth)>>
            /\ value' = NoValue
    /\ BoardUnchanged
    /\ UNCHANGED <<status, created, trail, last, STOP>>

\* faulty variant: best_move is assigned before the poll of line 88
BestAfter_keeps_partial(stopped, best_move, pv_move) == pv_move

\* best_move after the poll of line 88 and line 104
BestAfter(stopped, best_move, pv_move) == IF stopped THEN best_move ELSE pv_move

\* the rest of the pass once negamax has returned (86-104)
SearchResume ==
    /\ status = "running"
    /\ sp.pc = "called" /\ calls = <<>> /\ value # NoValue
    /\ sp' = [sp EXCEPT !.pc = "loop", !.score = value.ret,
                        !.best_move = BestAfter(stop_search, @, PvMove(searcher, 0, 0)),
                        !.broke = stop_search,
                        !.current_depth = IF stop_search THEN @ ELSE @ + 1,
                        !.recorded = IF stop_search THEN @
                                     ELSE Append(@, PvMove(searcher, 0, 0))]
    /\ BoardUnchanged
    /\ UNCHANGED <<status, created, trail, last, searcher, STOP, calls, value>>

\* the loop is left and best_move returned (107)
SearchReturn ==
    /\ status = "running"
    /\ sp.pc = "loop" /\ (sp.broke \/ sp.current_depth > sp.depth)
    /\ sp' = [sp EXCEPT !.pc = "returned"]
    /\ last' = [last EXCEPT !.op = "search_position", !.ret = sp.best_move]
    /\ BoardUnchanged
    /\ UNCHANGED <<status, created, trail, searcher, STOP, calls, value>>

\* another thread raises STOP while search_position runs
RaiseStop ==
    /\ status = "running"
    /\ sp.pc \in {"loop", "called"}
    /\ ~STOP
    /\ STOP' = TRUE
    /\ BoardUnchanged
    /\ UNCHANGED <<status, created, trail, last, searcher, sp, calls, value>>

SearchNext ==
    \/ SearchStart \/ SearchCall \/ SearchResume \/ SearchReturn \/ RaiseStop
    \/ NegamaxEnter \/ NegamaxStatic \/ NegamaxPass \/ NegamaxResume
    \/ QuiescenceEnter \/ QuiescencePass \/ QuiescenceResume

SpecSearch == SearchInit /\ [][SearchNext]_vars

-----------------------------------------------------------------------------
(* negamax called on a fresh Searcher with a depth near MAX_PLY, as pass     *)
(* depth of search_position calls it and as any caller of the public         *)
(* function may.  The position has one legal move for each side at every     *)
(* ply, so that the tree is a single line.                                   *)

\* Both kings are stalemated for good: each stands next to one pawn of its
\* own, and every other square beside it is covered by the other king or by
\* a pawn of the other side; all of these pawns are blocked by a pawn of the
\* other side in front of them.  Each side has one more pawn, far away and
\* free to step.  Rows 1 to 8 are not used.
LockedBoard ==
    SetPieces(EmptyBoard,
              << <<Coordinate(0, -100), "WhiteKing">>, <<Coordinate(0, -102), "BlackKing">>,
                 <<Coordinate(0, -99), "WhitePawn">>, <<Coordinate(0, -98), "BlackPawn">>,
                 <<Coordinate(-2, -100), "WhitePawn">>, <<Coordinate(-2, -99), "BlackPawn">>,
                 <<Coordinate(2, -100), "WhitePawn">>, <<Coordinate(2, -99), "BlackPawn">>,
                 <<Coordinate(0, -103), "BlackPawn">>, <<Coordinate(0, -104), "WhitePawn">>,
                 <<Coordinate(-2, -102), "BlackPawn">>, <<Coordinate(-2, -103), "WhitePawn">>,
                 <<Coordinate(2, -102), "BlackPawn">>, <<Coordinate(2, -103), "WhitePawn">>,
                 <<Coordinate(50, -400), "WhitePawn">>, <<Coordinate(60, 400), "BlackPawn">> >>)

\* the greatest depth argument of the calls on LockedBoard
MaxDepthArg == 127

DeepInit ==
    \E depth \in {MaxDepthArg - 1, MaxDepthArg} :
        /\ InitBoard(LockedBoard, "empty")
        /\ searcher = NewSearcher
        /\ STOP = FALSE
        /\ sp = [NoCall EXCEPT !.pc = "negamax", !.depth = depth]
        /\ calls = <<NewCall("negamax", -INFINITY, INFINITY, depth)>>
        /\ value = NoValue

DeepNext ==
    \/ NegamaxEnter \/ NegamaxStatic \/ NegamaxPass \/ NegamaxResume
    \/ QuiescenceEnter \/ QuiescencePass

SpecDeep == DeepInit /\ [][DeepNext]_vars

-----------------------------------------------------------------------------
(* Claims C18 to C20, checked under SpecSearch *)

\* search_position has returned
searchDone == status = "running" /\ sp.pc = "returned"

\* C18, as stated: on the position of main.rs, White to move, search_position
\* with depth 4 returns a rook move onto the file of the Black king, and the
\* score of the search is greater than MATE_SCORE.
C18_MainFindsRookMate ==
    (searchDone /\ ~sp.broke /\ Self = MainBoard /\ sp.depth = 4) =>
        /\ last.ret.kind = "Normal"
        /\ get_piece(Self, last.ret.from) = "WhiteRook"
        /\ last.ret.to[1] = OneKing(Self, FALSE)[1]
        /\ sp.score > MATE_SCORE

\* a call of negamax with depth >= 1 has just returned and STOP has not been
\* raised since search_position reset it; the board is the one it was called on
negamaxReturned ==
    status = "running" /\ sp.pc = "called" /\ value.fn = "negamax" /\ value.depth >= 1
    /\ ~STOP

\* make accepts none of the generated moves
NoLegalMove(b) == \A mv \in MoveSet(b) : ~SearchMake(b, mv).ret

InCheck(b) == is_attacked(b, OneKing(b, b.side_to_move), ~b.side_to_move).ret

\* C19, as stated: negamax called with depth >= 1 and no stop request on a
\* position without a legal move returns 0 when the side to move is not in
\* check, and -MATE_VALUE + ply, a value in (-MATE_VALUE, -MATE_VALUE + MAX_PLY],
\* when it is.
C19_NoLegalMoveAsStated ==
    (negamaxReturned /\ NoLegalMove(Self)) =>
        IF InCheck(Self)
        THEN /\ value.ret = -MATE_VALUE + searcher.ply
             /\ value.ret > -MATE_VALUE
             /\ value.ret <= -MATE_VALUE + MAX_PLY
        ELSE value.ret = 0

\* the window of the call after the clamp of lines 191-196, which the root skips
ClampedAlpha == IF searcher.ply = 0 THEN value.alpha ELSE Max(value.alpha, -MATE_VALUE)
ClampedBeta == IF searcher.ply = 0 THEN value.beta ELSE Min(value.beta, MATE_VALUE - 1)

\* C19, amended: below MAX_PLY and with a window the clamp leaves open, such
\* a call returns -MATE_VALUE + ply, a value in
\* [-MATE_VALUE, -MATE_VALUE + MAX_PLY), when the side to move is in check;
\* otherwise the static evaluation less 100 * depth when the window is a null
\* window, depth < 3 and that difference reaches beta; otherwise 0.
C19_NoLegalMove ==
    (negamaxReturned /\ NoLegalMove(Self) /\ searcher.ply < MAX_PLY
     /\ ClampedAlpha < ClampedBeta) =>
        IF InCheck(Self)
        THEN /\ value.ret = -MATE_VALUE + searcher.ply
             /\ value.ret >= -MATE_VALUE
             /\ value.ret < -MATE_VALUE + MAX_PLY
        ELSE IF value.beta - value.alpha <= 1 /\ value.depth < 3
                /\ evaluate(Self) - 100 * value.depth >= ClampedBeta
        THEN value.ret = evaluate(Self) - 100 * value.depth
        ELSE value.ret = 0

\* a mated side returns -MATE_VALUE + ply one ply below the root
C19_Witness ==
    /\ negamaxReturned /\ NoLegalMove(Self) /\ InCheck(Self)
    /\ searcher.ply = 1
    /\ value.ret = -MATE_VALUE + 1

\* the move line 104 recorded in the last pass that got there, the default
\* move before any did
LastRecorded ==
    IF sp.recorded = <<>> THEN default_move ELSE sp.recorded[Len(sp.recorded)]

\* C20: when a stop_search poll of pass d of the loop of search_position finds
\* STOP raised, search_position returns the move recorded off pv_table[0][0]
\* at the end of pass d - 1 (the default move when d = 1), whatever the
\* interrupted pass wrote; and STOP goes back to false only in the step that
\* starts search_position.
C20_StopKeepsLastCompleted ==
    /\ []((searchDone /\ sp.broke) =>
            /\ Len(sp.recorded) = sp.current_depth - 1
            /\ last.ret = LastRecorded)
    /\ [][(STOP /\ ~STOP') => (sp.pc = "idle" /\ sp'.pc = "loop")]_vars

\* the interrupted second pass had put another move into pv_table[0][0]
C20_Witness ==
    /\ searchDone /\ sp.broke
    /\ sp.current_depth = 2
    /\ PvMove(searcher, 0, 0) # last.ret
    /\ last.ret = sp.recorded[1]

-----------------------------------------------------------------------------
(* Claims C21 to C30 *)

\* C21: in negamax and quiescence every make is followed by one unmake before
\* the call returns, on every path: the history holds one snapshot for each
\* move made and not yet taken back, which is one for each ply, and whenever
\* no call is in progress, hence when search_position returns, stopped or not,
\* the board (squares, castling, en_passant, side_to_move, history) is the one
\* search_position was given.
C21_MakeUnmakePaired ==
    /\ Len(history) = Len(last.pre.history) + searcher.ply
    /\ (calls = <<>> \/ searchDone) => Self = last.pre
    /\ searchDone => searcher.ply = 0

\* search_position has returned after the root call answered TIME_UP to the
\* poll that follows its unmake
C21_Witness ==
    /\ searchDone /\ sp.broke
    /\ value.fn = "negamax" /\ value.line = 292 /\ value.ret = TIME_UP
    /\ Self = last.pre

\* C22, as stated: a call of negamax with depth > 0 that returns because one of
\* its polls of stop_search (lines 212, 226, 291) answered true returns
\* TIME_UP.
C22_StopReturnsTimeUp ==
    (value.fn = "negamax" /\ value.depth > 0 /\ value.line \in {213, 227, 292}) =>
        value.ret = TIME_UP

\* C23, as stated: negamax returns eval - 100 * depth by the static cut of
\* lines 217-224 only when the side to move is not in check, the window is a
\* null window, depth < 3, |beta - 1| > 48900 and eval - 100 * depth >= beta.
C23_StaticCutOnlyFarFromZero ==
    (value.fn = "negamax" /\ value.line = 221) =>
        /\ ~InCheck(Self)
        /\ value.beta - value.alpha <= 1
        /\ value.depth < 3
        /\ Abs(ClampedBeta - 1) > 48900
        /\ value.ret = evaluate(Self) - 100 * value.depth
        /\ value.ret >= ClampedBeta

\* the squares before the move the call calls[i] made and has not yet taken
\* back
Before(i) == [Self EXCEPT !.state = history[Len(last.pre.history) + i].state]

\* calls[i] is a call of quiescence that has made its move
quiescenceMade(i) == calls[i].fn = "quiescence" /\ calls[i].pc = "wait"

\* C24, as stated: quiescence makes no move whose target square is empty.
C24_QuiescenceOnlyCaptures ==
    \A i \in 1..Len(calls) :
        quiescenceMade(i) => get_piece(Before(i), calls[i].mv.to) # NoPiece

\* C24, amended: the moves quiescence makes are those scored 8000 or more:
\* the Normal captures of a piece worth at least the capturing piece, and the
\* promotions, onto an empty square or not.
C24_QuiescenceMoves ==
    \A i \in 1..Len(calls) :
        quiescenceMade(i) =>
            LET mv == calls[i].mv
            IN  \/ /\ mv.kind = "Normal"
                   /\ get_piece(Before(i), mv.to) # NoPiece
                   /\ PIECE_VALUES(get_piece(Before(i), mv.to))
                          >= PIECE_VALUES(get_piece(Before(i), mv.from))
                \/ mv.kind = "Promotion"

\* quiescence has made a promotion onto an empty square
C24_Witness ==
    /\ calls # <<>>
    /\ quiescenceMade(Len(calls))
    /\ Top.mv.kind = "Promotion"
    /\ get_piece(Before(Len(calls)), Top.mv.to) = NoPiece

\* C25, as stated: every castling move in a generated list gets a score that
\* includes the bonus of 400.
C25_CastlingBonus ==
    (calls # <<>> /\ Top.pc = "loop") =>
        \A i \in 1..Len(Top.moves) :
            Top.moves[i].kind = "Castling" => Top.move_scores[i] >= 400

\* a call of negamax or quiescence has just returned and STOP has not been
\* raised since search_position reset it
searchReturned ==
    status = "running" /\ sp.pc = "called" /\ value.fn \in {"negamax", "quiescence"} /\ ~STOP

\* C26, as stated: with no stop requested, every value negamax and quiescence
\* return lies in the window [alpha, beta] of the call, taken after the clamp
\* of lines 191-196.
C26_FailHard ==
    searchReturned => (ClampedAlpha <= value.ret /\ value.ret <= ClampedBeta)

\* C26, amended: with no stop requested, the value lies in the window of the
\* call unless it comes from one of four return statements: the static cut
\* (221) returns eval - 100 * depth, which is beta or more; a position without
\* a legal move (323) returns 0 or -MATE_VALUE + ply; at MAX_PLY the static
\* evaluation is returned (122, 177); and a window the clamp has shut returns
\* its alpha (198).
C26_FailHardButFour ==
    searchReturned =>
        CASE value.line = 221 ->
                 value.ret = evaluate(Self) - 100 * value.depth /\ value.ret >= ClampedBeta
          [] value.line = 323 -> value.ret \in {0, -MATE_VALUE + searcher.ply}
          [] value.line \in {122, 177} -> value.ret = evaluate(Self)
          [] value.line = 198 -> value.ret = ClampedAlpha
          [] OTHER -> ClampedAlpha <= value.ret /\ value.ret <= ClampedBeta

\* a beta cutoff of negamax has returned beta
C26_Witness ==
    /\ searchReturned
    /\ value.fn = "negamax" /\ value.line = 317
    /\ value.ret = ClampedBeta

\* the innermost call is being entered, right after the move of its caller
\* was made
justMade == Len(calls) >= 2 /\ Top.pc = "enter" /\ calls[Len(calls) - 1].pc = "wait"

\* the InfiniteMoves of a move list
Rays(moves) == {moves[i] : i \in {j \in DOMAIN moves : moves[j].kind = "InfiniteMove"}}

\* C29: make of an InfiniteMove pushes one snapshot and toggles side_to_move
\* and leaves squares, castling and en_passant as they were; it returns true
\* exactly when the king of the mover is not attacked; and negamax counts an
\* InfiniteMove that make accepted among its legal moves.
C29_InfiniteMoveIsPass ==
    /\ (justMade /\ calls[Len(calls) - 1].mv.kind = "InfiniteMove") =>
            LET pushed == history[Len(history)]
            IN  /\ Len(history) = Len(last.pre.history) + searcher.ply
                /\ state = pushed.state
                /\ castling_rights = pushed.castling_rights
                /\ en_passant = pushed.en_passant
                /\ side_to_move = ~pushed.side_to_move
                /\ ~is_attacked(Self, OneKing(Self, ~side_to_move), side_to_move).ret
                /\ calls[Len(calls) - 1].legal_moves >= 1
    /\ (calls # <<>> /\ Top.fn = "negamax" /\ Top.pc = "loop" /\ Top.count = 1) =>
            LET in_check == InCheck(Self)
            IN  \A mv \in Rays(Top.moves) :
                    LET made == SearchMake(Self, mv)
                    IN  /\ made.ret = ~in_check
                        /\ made.board = [Self EXCEPT !.history = Append(@, Snapshot(Self)),
                                                      !.side_to_move = ~@]
    /\ (searchDone /\ last.ret.kind = "InfiniteMove") =>
            last.ret \in MoveSet(Self) /\ SearchMake(Self, last.ret).ret

\* a pass has been made on a board whose en_passant square is set
C29_Witness ==
    /\ justMade /\ calls[Len(calls) - 1].mv.kind = "InfiniteMove"
    /\ en_passant # NoCoord
    /\ en_passant = history[Len(history)].en_passant


\* C30: search_position on a fresh Searcher returns a generated move of the
\* root that make accepts whenever the root has such a move and pass 1 of the
\* loop got to line 104, and the default move Normal((0,0),(0,0)) otherwise.
C30_ReturnedMove ==
    searchDone =>
        IF sp.recorded # <<>> /\ ~NoLegalMove(Self)
        THEN last.ret \in MoveSet(Self) /\ SearchMake(Self, last.ret).ret
        ELSE last.ret = default_move

\* a search stopped after its first pass has returned a legal move of the root
C30_Witness ==
    /\ searchDone /\ sp.broke
    /\ sp.recorded # <<>>
    /\ last.ret \in MoveSet(Self)
    /\ SearchMake(Self, last.ret).ret

-----------------------------------------------------------------------------
(* Claims C27 and C28, checked under SpecDeep *)

\* C27, as stated: the search ends by returning, and no chain of nested calls
\* of negamax and quiescence is longer than MAX_PLY.
C27_ChainAtMostMaxPly == status = "running" /\ Len(calls) <= MAX_PLY

\* C28, as stated: every index used on pv_length, pv_table and killers is less
\* than MAX_PLY, the index ply + 1 of lines 307-310 included.
C28_IndicesBelowMaxPly ==
    /\ \A ply \in DOMAIN searcher.pv_length : ply < MAX_PLY
    /\ \A k \in DOMAIN searcher.pv_table : k[1] < MAX_PLY /\ k[2] < MAX_PLY
    /\ \A k \in DOMAIN searcher.killers : k[1] < 2 /\ k[2] < MAX_PLY
    /\ ~(status = "panic_index" /\ last.op = "negamax" /\ searcher.ply + 1 >= MAX_PLY)

====
